---- MODULE Spec2Model ----
(***************************************************************************)
(* Request/response pipeline of the sevalla-go client: Client.Do,          *)
(* CheckResponse, Response.populatePageValues, the error classification    *)
(* predicates of errors.go and the resource methods built on them.         *)
(*                                                                         *)
(* Text that the code takes apart (the Link header) is a sequence of       *)
(* one-character strings, so that Split, Trim and the parsers act on it as *)
(* the Go code does.  Text that the code only stores or compares (status   *)
(* messages, response bodies) is a plain string; encoding/json is modelled *)
(* on the JSON value a body text denotes (jsonParse).                      *)
(***************************************************************************)
EXTENDS Integers, Sequences, FiniteSets, TLC

VARIABLES
    pc,        \* the operation that produced the current state
    link,      \* populatePageValues: the Link header, a sequence of LinkEntries indices
    pages,     \* populatePageValues: the Response's page fields after the call
    errIn,     \* classification: the error value handed to the predicates
    cls,       \* classification: the predicates' answers for errIn
    httpResp,  \* Do: what the transport (c.client.Do) returned
    v0,        \* Do: the destination before the call
    v,         \* Do: the destination after the call
    ret,       \* Do / resource method: the values returned to the caller
    opts,      \* NewClient: the options it was given, in order
    client,    \* the configuration of the Client
    reqArg,    \* NewRequest / NewRequestWithQuery: the arguments of the call
    req,       \* NewRequest / NewRequestWithQuery: the request and error returned
    errStr,    \* classification: what errIn.Error() did
    services,  \* the five service handles of the Client
    calls      \* concurrent calls on the one Client: the progress of each

vars ==
    <<pc, link, pages, errIn, cls, httpResp, v0, v, ret, opts, client, reqArg, req,
      errStr, services, calls>>

----------------------------------------------------------------------------
(* Bounds *)

\* number of comma-separated entries of a Link header
MaxEntries == 3

\* number of options given to NewClient
MaxOpts == 3

----------------------------------------------------------------------------
(* strings: the functions of package strings that populatePageValues uses *)

\* strings.Split(s, sep) for a one-character separator: the pieces between
\* the occurrences of sep, in order (one more piece than occurrences)
Split(s, sep) ==
    LET pos == {i \in 1..Len(s) : s[i] = sep}
        n == Cardinality(pos)
        kth(k) == CHOOSE p \in pos : Cardinality({q \in pos : q < p}) = k - 1
        from(k) == IF k = 1 THEN 1 ELSE kth(k - 1) + 1
        to(k) == IF k = n + 1 THEN Len(s) ELSE kth(k) - 1
    IN [k \in 1..(n + 1) |-> SubSeq(s, from(k), to(k))]

\* strings.Trim(s, cutset): drop leading and trailing characters of cutset
Trim(s, cutset) ==
    LET RECURSIVE first(_)
        first(i) == IF i > Len(s) \/ s[i] \notin cutset THEN i ELSE first(i + 1)
        RECURSIVE last(_)
        last(j) == IF j < 1 \/ s[j] \notin cutset THEN j ELSE last(j - 1)
        a == first(1)
        b == last(Len(s))
    IN IF a > b THEN <<>> ELSE SubSeq(s, a, b)

WhiteSpace == {" ", "\t", "\n", "\r"}

\* strings.TrimSpace(s)
TrimSpace(s) == Trim(s, WhiteSpace)

\* strings.Cut(s, sep): <<before, after, found>> around the first sep
Cut(s, sep) ==
    LET pos == {i \in 1..Len(s) : s[i] = sep}
        k == CHOOSE p \in pos : \A q \in pos : p <= q
    IN IF pos = {} THEN <<s, <<>>, FALSE>>
       ELSE <<SubSeq(s, 1, k - 1), SubSeq(s, k + 1, Len(s)), TRUE>>

Contains(s, ch) == \E i \in 1..Len(s) : s[i] = ch

\* strings.Join(parts, sep) for a separator given as a character sequence
Join(parts, sep) ==
    LET RECURSIVE go(_)
        go(i) == IF i > Len(parts) THEN <<>>
                 ELSE IF i = Len(parts) THEN parts[i]
                 ELSE parts[i] \o sep \o go(i + 1)
    IN go(1)

----------------------------------------------------------------------------
(* net/url and strconv, as far as populatePageValues depends on them *)

Digits == {"0", "1", "2", "3", "4", "5", "6", "7", "8", "9"}
Letters == {"a", "b", "c", "d", "e", "f", "g", "h", "i", "j", "k", "l", "m",
            "n", "o", "p", "q", "r", "s", "t", "u", "v", "w", "x", "y", "z"}
HexDigits == Digits \cup {"a", "b", "c", "d", "e", "f"}
ControlChars == {"\t", "\n", "\r"}

DigitVal(d) ==
    CASE d = "0" -> 0 [] d = "1" -> 1 [] d = "2" -> 2 [] d = "3" -> 3
      [] d = "4" -> 4 [] d = "5" -> 5 [] d = "6" -> 6 [] d = "7" -> 7
      [] d = "8" -> 8 [] d = "9" -> 9

\* strconv.Atoi(s): [ok, n]; an optional sign, then at least one digit and
\* nothing else (values stay far below the int range for the inputs used)
Atoi(s) ==
    LET signed == Len(s) > 0 /\ s[1] \in {"+", "-"}
        ds == IF signed THEN Tail(s) ELSE s
        RECURSIVE val(_, _)
        val(i, acc) == IF i > Len(ds) THEN acc ELSE val(i + 1, 10 * acc + DigitVal(ds[i]))
    IN IF Len(ds) = 0 \/ \E i \in 1..Len(ds) : ds[i] \notin Digits
       THEN [ok |-> FALSE, n |-> 0]
       ELSE [ok |-> TRUE, n |-> IF signed /\ s[1] = "-" THEN 0 - val(1, 0) ELSE val(1, 0)]

\* a %-escape that url unescaping rejects: % not followed by two hex digits
BadEscape(s) ==
    \E i \in 1..Len(s) :
        /\ s[i] = "%"
        /\ \/ i + 2 > Len(s)
           \/ s[i + 1] \notin HexDigits
           \/ s[i + 2] \notin HexDigits

\* url.getScheme(rawURL): [ok, scheme, rest]
getScheme(rawURL) ==
    LET RECURSIVE go(_)
        go(i) ==
            IF i > Len(rawURL) THEN [ok |-> TRUE, scheme |-> <<>>, rest |-> rawURL]
            ELSE IF rawURL[i] \in Letters THEN go(i + 1)
            ELSE IF rawURL[i] \in Digits \cup {"+", "-", "."}
                 THEN IF i = 1 THEN [ok |-> TRUE, scheme |-> <<>>, rest |-> rawURL]
                      ELSE go(i + 1)
            ELSE IF rawURL[i] = ":"
                 THEN IF i = 1 THEN [ok |-> FALSE, scheme |-> <<>>, rest |-> <<>>]
                      ELSE [ok |-> TRUE, scheme |-> SubSeq(rawURL, 1, i - 1),
                            rest |-> SubSeq(rawURL, i + 1, Len(rawURL))]
            ELSE [ok |-> TRUE, scheme |-> <<>>, rest |-> rawURL]
    IN go(1)

\* url.Parse(rawURL): [ok, RawQuery].  It fails on a control character, a
\* missing scheme before ':', a colon in the first segment of a relative
\* path, and a bad %-escape in the path.
urlParse(rawURL) ==
    LET noFrag == Cut(rawURL, "#")[1]
        sch == getScheme(noFrag)
        cq == Cut(sch.rest, "?")
        path == cq[1]
        relative == sch.scheme = <<>> /\ (Len(path) = 0 \/ path[1] # "/")
        fail == [ok |-> FALSE, RawQuery |-> <<>>]
    IN IF \E i \in 1..Len(rawURL) : rawURL[i] \in ControlChars THEN fail
       ELSE IF ~sch.ok THEN fail
       ELSE IF relative /\ Contains(Cut(path, "/")[1], ":") THEN fail
       ELSE IF BadEscape(path) THEN fail
       ELSE [ok |-> TRUE, RawQuery |-> cq[2]]

\* url.QueryUnescape on text without valid %-escapes: '+' becomes a space
QueryUnescape(s) == [i \in 1..Len(s) |-> IF s[i] = "+" THEN " " ELSE s[i]]

\* u.Query().Get(key): the first value of key among the pairs ParseQuery
\* accepts; pairs holding ';' or a bad escape are dropped, "" when absent
QueryGet(rawQuery, key) ==
    LET pairs == Split(rawQuery, "&")
        RECURSIVE go(_)
        go(i) ==
            IF i > Len(pairs) THEN <<>>
            ELSE LET kv == Cut(pairs[i], "=")
                 IN IF \/ Contains(pairs[i], ";")
                       \/ pairs[i] = <<>>
                       \/ BadEscape(pairs[i])
                       \/ QueryUnescape(kv[1]) # key
                    THEN go(i + 1)
                    ELSE QueryUnescape(kv[2])
    IN go(1)

----------------------------------------------------------------------------
(* Response.populatePageValues *)

\* Link header entries: the text, and for a well-formed entry the rel and
\* the page it names
LinkEntries ==
  <<
    \* </i?page=2>; rel="next"
    [text |-> <<"<", "/", "i", "?", "p", "a", "g", "e", "=", "2", ">", ";", " ", "r", "e", "l", "=", "\"", "n", "e", "x", "t", "\"">>,
     rel |-> "next", page |-> 2, wf |-> TRUE],
    \* </i?page=1>; rel="prev"
    [text |-> <<"<", "/", "i", "?", "p", "a", "g", "e", "=", "1", ">", ";", " ", "r", "e", "l", "=", "\"", "p", "r", "e", "v", "\"">>,
     rel |-> "prev", page |-> 1, wf |-> TRUE],
    \* <http://x/i?page=1>; rel="first"
    [text |-> <<"<", "h", "t", "t", "p", ":", "/", "/", "x", "/", "i", "?", "p", "a", "g", "e", "=", "1", ">", ";", " ", "r", "e", "l", "=", "\"", "f", "i", "r", "s", "t", "\"">>,
     rel |-> "first", page |-> 1, wf |-> TRUE],
    \* </i?per_page=5&page=10>; rel="last"
    [text |-> <<"<", "/", "i", "?", "p", "e", "r", "_", "p", "a", "g", "e", "=", "5", "&", "p", "a", "g", "e", "=", "1", "0", ">", ";", " ", "r", "e", "l", "=", "\"", "l", "a", "s", "t", "\"">>,
     rel |-> "last", page |-> 10, wf |-> TRUE],
    \* </i?page=3>; rel="next"
    [text |-> <<"<", "/", "i", "?", "p", "a", "g", "e", "=", "3", ">", ";", " ", "r", "e", "l", "=", "\"", "n", "e", "x", "t", "\"">>,
     rel |-> "next", page |-> 3, wf |-> TRUE],
    \* </i?page=7>
    [text |-> <<"<", "/", "i", "?", "p", "a", "g", "e", "=", "7", ">">>,
     rel |-> "", page |-> 0, wf |-> FALSE],
    \* </i?page=7>; rel="prev"; title="t"
    [text |-> <<"<", "/", "i", "?", "p", "a", "g", "e", "=", "7", ">", ";", " ", "r", "e", "l", "=", "\"", "p", "r", "e", "v", "\"", ";", " ", "t", "i", "t", "l", "e", "=", "\"", "t", "\"">>,
     rel |-> "", page |-> 0, wf |-> FALSE],
    \* <:/i?page=7>; rel="first"
    [text |-> <<"<", ":", "/", "i", "?", "p", "a", "g", "e", "=", "7", ">", ";", " ", "r", "e", "l", "=", "\"", "f", "i", "r", "s", "t", "\"">>,
     rel |-> "", page |-> 0, wf |-> FALSE],
    \* </i?per_page=5>; rel="last"
    [text |-> <<"<", "/", "i", "?", "p", "e", "r", "_", "p", "a", "g", "e", "=", "5", ">", ";", " ", "r", "e", "l", "=", "\"", "l", "a", "s", "t", "\"">>,
     rel |-> "", page |-> 0, wf |-> FALSE],
    \* </i?page=x>; rel="next"
    [text |-> <<"<", "/", "i", "?", "p", "a", "g", "e", "=", "x", ">", ";", " ", "r", "e", "l", "=", "\"", "n", "e", "x", "t", "\"">>,
     rel |-> "", page |-> 0, wf |-> FALSE],
    \* </i?page=7>; next
    [text |-> <<"<", "/", "i", "?", "p", "a", "g", "e", "=", "7", ">", ";", " ", "n", "e", "x", "t">>,
     rel |-> "", page |-> 0, wf |-> FALSE]
  >>

NumEntries == Len(LinkEntries)

\* the header text of a sequence of entries, joined as a server writes them
HeaderText(l) == Join([i \in 1..Len(l) |-> LinkEntries[l[i]].text], <<",", " ">>)

\* the page fields of a Response (NextPage .. LastPage); panicked records
\* that the call left through a run-time panic
ZeroPages ==
    [NextPage |-> 0, PrevPage |-> 0, FirstPage |-> 0, LastPage |-> 0, panicked |-> FALSE]

Str_rel_next == <<"n", "e", "x", "t">>
Str_rel_prev == <<"p", "r", "e", "v">>
Str_rel_first == <<"f", "i", "r", "s", "t">>
Str_rel_last == <<"l", "a", "s", "t">>
Str_page == <<"p", "a", "g", "e">>

\* the switch on rel: the field that receives pageNum
storePage(r, rel, pageNum) ==
    IF rel = Str_rel_next THEN [r EXCEPT !.NextPage = pageNum]
    ELSE IF rel = Str_rel_prev THEN [r EXCEPT !.PrevPage = pageNum]
    ELSE IF rel = Str_rel_first THEN [r EXCEPT !.FirstPage = pageNum]
    ELSE IF rel = Str_rel_last THEN [r EXCEPT !.LastPage = pageNum]
    ELSE r

\* the page number taken from the wrong query parameter
populateEntry_mut(r, entry) ==
    LET segments == Split(TrimSpace(entry), ";")
        urlStr == Trim(segments[1], {"<", ">"})
        u == urlParse(urlStr)
        page == QueryGet(u.RawQuery, <<"p", "e", "r", "_", "p", "a", "g", "e">>)
        pageNum == Atoi(page)
        relParts == Split(segments[2], "=")
        rel == Trim(relParts[2], {"\""})
    IN IF Len(segments) # 2 THEN r
       ELSE IF ~u.ok THEN r
       ELSE IF page = <<>> THEN r
       ELSE IF ~pageNum.ok THEN r
       ELSE IF Len(relParts) < 2 THEN [r EXCEPT !.panicked = TRUE]
       ELSE storePage(r, rel, pageNum.n)

\* the body of the for loop of populatePageValues, for one element of
\* strings.Split(links, ","), acting on the fields r
populateEntry(r, entry) ==
    LET segments == Split(TrimSpace(entry), ";")
        urlStr == Trim(segments[1], {"<", ">"})
        u == urlParse(urlStr)
        page == QueryGet(u.RawQuery, Str_page)
        pageNum == Atoi(page)
        relParts == Split(segments[2], "=")
        rel == Trim(relParts[2], {"\""})
    IN IF Len(segments) # 2 THEN r
       ELSE IF ~u.ok THEN r
       ELSE IF page = <<>> THEN r
       ELSE IF ~pageNum.ok THEN r
       ELSE IF Len(relParts) < 2 THEN [r EXCEPT !.panicked = TRUE]  \* index out of range
       ELSE storePage(r, rel, pageNum.n)

\* Response.populatePageValues, from the value of the Link header ("" when
\* the response has none): the fields of a fresh Response afterwards
populatePageValues(links) ==
    LET parts == Split(links, ",")
        RECURSIVE go(_, _)
        go(i, r) == IF i > Len(parts) \/ r.panicked THEN r
                    ELSE go(i + 1, populateEntry(r, parts[i]))
    IN IF links = <<>> THEN ZeroPages ELSE go(1, ZeroPages)

----------------------------------------------------------------------------
(* errors.go: error values and the classification predicates *)

StatusNoContent == 204
StatusBadRequest == 400
StatusUnauthorized == 401
StatusForbidden == 403
StatusNotFound == 404
StatusConflict == 409
StatusUnprocessableEntity == 422
StatusTooManyRequests == 429

\* An error value.  type is the dynamic type of the error interface value:
\* "nil", "*ErrorResponse", "*RateLimitError", "*ValidationError", or an
\* error of another package ("transport", "decode", "url").  Response is
\* the *http.Response of an ErrorResponse (of the embedded one for a
\* RateLimitError); id tells apart the values of foreign errors;
\* RetryAfter is the field of a RateLimitError, 0 in every other value.
MkErr(type, respNil, status, msg, code, rid, errs, id) ==
    [type |-> type,
     Response |-> [isNil |-> respNil, StatusCode |-> status],
     Message |-> msg, Code |-> code, RequestID |-> rid, Errors |-> errs,
     id |-> id, RetryAfter |-> 0]

\* &RateLimitError{ErrorResponse: e, RetryAfter: seconds}
MkRateLimitError(e, seconds) ==
    [e EXCEPT !.type = "*RateLimitError", !.RetryAfter = seconds]

NilErr == MkErr("nil", TRUE, 0, "", "", "", <<>>, "")

\* a foreign error value (net/http, encoding/json, net/url, io)
ForeignErr(type, id) == MkErr(type, TRUE, 0, "", "", "", <<>>, id)

\* an assertion that also accepts the struct embedding *ErrorResponse
IsErrorResponse_mut(err) == err.type \in {"*ErrorResponse", "*RateLimitError"}

\* the type assertion err.(*ErrorResponse) of every predicate
IsErrorResponse(err) == err.type = "*ErrorResponse"

\* the test of e.Response.StatusCode against the codes S: "true"/"false",
\* or "panic" where e.Response is nil and its StatusCode is read
statusIn(e, S) ==
    IF e.Response.isNil THEN "panic"
    ELSE IF e.Response.StatusCode \in S THEN "true" ELSE "false"

IsNotFound(err) ==
    IF IsErrorResponse(err) THEN statusIn(err, {StatusNotFound}) ELSE "false"
IsBadRequest(err) ==
    IF IsErrorResponse(err) THEN statusIn(err, {StatusBadRequest}) ELSE "false"
IsUnauthorized(err) ==
    IF IsErrorResponse(err) THEN statusIn(err, {StatusUnauthorized}) ELSE "false"
IsForbidden(err) ==
    IF IsErrorResponse(err) THEN statusIn(err, {StatusForbidden}) ELSE "false"
IsConflict(err) ==
    IF IsErrorResponse(err) THEN statusIn(err, {StatusConflict}) ELSE "false"
IsUnprocessableEntity(err) ==
    IF IsErrorResponse(err) THEN statusIn(err, {StatusUnprocessableEntity}) ELSE "false"
IsRateLimited(err) ==
    IF IsErrorResponse(err) THEN statusIn(err, {StatusTooManyRequests}) ELSE "false"
IsServerError(err) ==
    IF IsErrorResponse(err) THEN statusIn(err, 500..599) ELSE "false"

\* the upper bound of the 4xx range written as <= 500
IsClientError_mut(err) ==
    IF IsErrorResponse(err) THEN statusIn(err, 400..500) ELSE "false"

IsClientError(err) ==
    IF IsErrorResponse(err) THEN statusIn(err, 400..499) ELSE "false"

\* err.Error(): the format the method picks, or panicked where an
\* ErrorResponse without a Response has its StatusCode read
Error(err) ==
    IF err.type = "*ErrorResponse"
    THEN IF err.Response.isNil THEN [panicked |-> TRUE, format |-> ""]
         ELSE IF err.Code # "" THEN [panicked |-> FALSE, format |-> "sevalla: %s (%d) - %s"]
         ELSE IF err.RequestID # ""
              THEN [panicked |-> FALSE, format |-> "sevalla: %d - %s (request_id: %s)"]
         ELSE [panicked |-> FALSE, format |-> "sevalla: %d - %s"]
    ELSE IF err.type = "*RateLimitError"
    THEN [panicked |-> FALSE, format |-> "rate limited: retry after %d seconds - %s"]
    ELSE IF err.type = "*ValidationError"
    THEN [panicked |-> FALSE, format |-> "validation error: %s - %s"]
    ELSE [panicked |-> FALSE, format |-> err.id]

\* the answers of all nine predicates for one error value
Classify(err) ==
    [IsNotFound |-> IsNotFound(err),
     IsBadRequest |-> IsBadRequest(err),
     IsUnauthorized |-> IsUnauthorized(err),
     IsForbidden |-> IsForbidden(err),
     IsConflict |-> IsConflict(err),
     IsUnprocessableEntity |-> IsUnprocessableEntity(err),
     IsRateLimited |-> IsRateLimited(err),
     IsServerError |-> IsServerError(err),
     IsClientError |-> IsClientError(err)]

NoClass == Classify(NilErr)

\* no Error call was made
NoErrStr == [panicked |-> FALSE, format |-> ""]

----------------------------------------------------------------------------
(* encoding/json, on the JSON value a body text denotes *)

\* a member of a JSON object: key k, value of type t ("str", "num", "null",
\* "obj", "arr"), its text s for a string or number, and for the "errors"
\* array its decoded items
Member(k, t, s) == [k |-> k, t |-> t, s |-> s, items |-> <<>>]

\* a JSON value: t is "invalid" (not JSON), "eof" (no text), "null", "obj",
\* "arr", "str" or "num"; kv holds an object's members in order, elems the
\* member lists of an array's elements (each element an object)
JVal(t, kv, elems) == [t |-> t, kv |-> kv, elems |-> elems]

Body_empty == ""
Body_notFound == "{\"message\":\"Application not found\",\"code\":\"RESOURCE_NOT_FOUND\"}"
Body_full == "{\"message\":\"slow down\",\"code\":\"RATE\",\"request_id\":\"req-1\",\"errors\":[{\"field\":\"name\",\"message\":\"required\"}]}"
Body_otherShape == "{\"error\":\"boom\"}"
Body_null == "null"
Body_appList == "[{\"id\":\"a1\",\"name\":\"web\"}]"
Body_app == "{\"id\":\"a1\",\"name\":\"web\"}"
Body_wrongType == "{\"code\":\"E1\",\"message\":5,\"id\":7}"
Body_truncated == "{\"message\":"
Body_text == "Internal Server Error"

Bodies ==
    {Body_empty, Body_notFound, Body_full, Body_otherShape, Body_null,
     Body_appList, Body_app, Body_wrongType, Body_truncated, Body_text}

\* the JSON value of each body text
jsonParse(body) ==
    CASE body = Body_empty -> JVal("eof", <<>>, <<>>)
      [] body = Body_notFound ->
            JVal("obj", <<Member("message", "str", "Application not found"),
                          Member("code", "str", "RESOURCE_NOT_FOUND")>>, <<>>)
      [] body = Body_full ->
            JVal("obj", <<Member("message", "str", "slow down"),
                          Member("code", "str", "RATE"),
                          Member("request_id", "str", "req-1"),
                          [k |-> "errors", t |-> "arr", s |-> "",
                           items |-> <<[Field |-> "name", Code |-> "", Message |-> "required"]>>]>>,
                 <<>>)
      [] body = Body_otherShape -> JVal("obj", <<Member("error", "str", "boom")>>, <<>>)
      [] body = Body_null -> JVal("null", <<>>, <<>>)
      [] body = Body_appList ->
            JVal("arr", <<>>, <<<<Member("id", "str", "a1"), Member("name", "str", "web")>>>>)
      [] body = Body_app ->
            JVal("obj", <<Member("id", "str", "a1"), Member("name", "str", "web")>>, <<>>)
      [] body = Body_wrongType ->
            JVal("obj", <<Member("code", "str", "E1"), Member("message", "num", "5"),
                          Member("id", "num", "7")>>, <<>>)
      [] body = Body_truncated -> JVal("invalid", <<>>, <<>>)
      [] body = Body_text -> JVal("invalid", <<>>, <<>>)

\* storing one member into a string field of a struct: [ok, val]; a string
\* is stored, null leaves the field, any other type is a type error and
\* leaves the field
setString(old, m) ==
    IF m.t = "str" THEN [ok |-> TRUE, val |-> m.s]
    ELSE IF m.t = "null" THEN [ok |-> TRUE, val |-> old]
    ELSE [ok |-> FALSE, val |-> old]

\* json.Unmarshal(data, errorResponse) for the fields tagged in
\* ErrorResponse (message, code, request_id, errors): [failed, e].  A type
\* error is remembered and decoding goes on with the next member.
unmarshalErrorResponse(val, e) ==
    LET RECURSIVE go(_, _, _)
        go(i, cur, failed) ==
            IF i > Len(val.kv) THEN [failed |-> failed, e |-> cur]
            ELSE LET m == val.kv[i]
                 IN IF m.k = "message"
                    THEN LET r == setString(cur.Message, m)
                         IN go(i + 1, [cur EXCEPT !.Message = r.val], failed \/ ~r.ok)
                    ELSE IF m.k = "code"
                    THEN LET r == setString(cur.Code, m)
                         IN go(i + 1, [cur EXCEPT !.Code = r.val], failed \/ ~r.ok)
                    ELSE IF m.k = "request_id"
                    THEN LET r == setString(cur.RequestID, m)
                         IN go(i + 1, [cur EXCEPT !.RequestID = r.val], failed \/ ~r.ok)
                    ELSE IF m.k = "errors"
                    THEN IF m.t = "arr" THEN go(i + 1, [cur EXCEPT !.Errors = m.items], failed)
                         ELSE IF m.t = "null" THEN go(i + 1, [cur EXCEPT !.Errors = <<>>], failed)
                         ELSE go(i + 1, cur, TRUE)
                    ELSE go(i + 1, cur, failed)
    IN IF val.t = "invalid" THEN [failed |-> TRUE, e |-> e]
       ELSE IF val.t = "null" THEN [failed |-> FALSE, e |-> e]
       ELSE IF val.t = "obj" THEN go(1, e, FALSE)
       ELSE [failed |-> TRUE, e |-> e]

----------------------------------------------------------------------------
(* CheckResponse *)

\* the non-2xx branch of CheckResponse: the ErrorResponse built from a
\* response with text body; bodyErr when io.ReadAll fails before any byte
errorFromBody(status, body, bodyErr) ==
    LET errorResponse == MkErr("*ErrorResponse", FALSE, status, "", "", "", <<>>, "")
        u == unmarshalErrorResponse(jsonParse(body), errorResponse)
    IN IF ~bodyErr /\ body # ""
       THEN IF u.failed THEN [u.e EXCEPT !.Message = body] ELSE u.e
       ELSE errorResponse

\* the success range cut one short
CheckResponse_mut(status, body, bodyErr) ==
    IF status >= 200 /\ status < 299 THEN NilErr
    ELSE errorFromBody(status, body, bodyErr)

\* a CheckResponse that returns the specialised error for status 429
CheckResponse_mut429(status, body, bodyErr) ==
    IF status >= 200 /\ status <= 299 THEN NilErr
    ELSE IF status = StatusTooManyRequests
    THEN MkRateLimitError(errorFromBody(status, body, bodyErr), 0)
    ELSE errorFromBody(status, body, bodyErr)

\* CheckResponse(r) for r.StatusCode = status and r.Body = body
CheckResponse(status, body, bodyErr) ==
    IF status >= 200 /\ status <= 299 THEN NilErr
    ELSE errorFromBody(status, body, bodyErr)

----------------------------------------------------------------------------
(* destinations of Client.Do *)

\* The value passed as v, seen through the pointer: kind "nil" (no
\* destination), "writer" (an io.Writer, written = the chunks it received),
\* "app" (&app with app a *Application: isNil tells whether app is nil,
\* obj its fields) or "apps" (&apps with apps a []*Application).
NoApp == [ID |-> "", Name |-> ""]
MkDest(kind, isNil, obj, items, written) ==
    [kind |-> kind, isNil |-> isNil, obj |-> obj, items |-> items, written |-> written]

NoDest == MkDest("nil", TRUE, NoApp, <<>>, <<>>)
NilApp == MkDest("app", TRUE, NoApp, <<>>, <<>>)
NewApp == MkDest("app", FALSE, NoApp, <<>>, <<>>)     \* app := new(Application)
NilApps == MkDest("apps", TRUE, NoApp, <<>>, <<>>)    \* var apps []*Application
OldApp == MkDest("app", FALSE, [ID |-> "a0", Name |-> "old"], <<>>, <<>>)
OldWriter == MkDest("writer", FALSE, NoApp, <<>>, <<"old">>)

Dests == {NoDest, NewApp, OldApp, NilApps, OldWriter}

\* decoding a JSON object's members into an Application (fields id, name)
decodeApplication(kv, app) ==
    LET RECURSIVE go(_, _, _)
        go(i, cur, failed) ==
            IF i > Len(kv) THEN [failed |-> failed, app |-> cur]
            ELSE LET m == kv[i]
                 IN IF m.k = "id"
                    THEN LET r == setString(cur.ID, m)
                         IN go(i + 1, [cur EXCEPT !.ID = r.val], failed \/ ~r.ok)
                    ELSE IF m.k = "name"
                    THEN LET r == setString(cur.Name, m)
                         IN go(i + 1, [cur EXCEPT !.Name = r.val], failed \/ ~r.ok)
                    ELSE go(i + 1, cur, failed)
    IN go(1, app, FALSE)

\* json.NewDecoder(body).Decode(v) for a complete JSON value val:
\* [failed, v].  null sets a pointer or slice to nil; an object fills the
\* Application (allocating it when the pointer is nil); an array replaces
\* the slice; a value of the wrong kind is a type error and stores nothing.
decodeInto(val, d) ==
    LET app == decodeApplication(val.kv, IF d.isNil THEN NoApp ELSE d.obj)
        elem(i) == decodeApplication(val.elems[i], NoApp)
    IN IF val.t = "null" THEN [failed |-> FALSE, v |-> [d EXCEPT !.isNil = TRUE, !.obj = NoApp, !.items = <<>>]]
       ELSE IF d.kind = "app" /\ val.t = "obj"
            THEN [failed |-> app.failed, v |-> [d EXCEPT !.isNil = FALSE, !.obj = app.app]]
       ELSE IF d.kind = "apps" /\ val.t = "arr"
            THEN [failed |-> \E i \in 1..Len(val.elems) : elem(i).failed,
                  v |-> [d EXCEPT !.isNil = FALSE,
                                  !.items = [i \in 1..Len(val.elems) |-> elem(i).app]]]
       ELSE [failed |-> TRUE, v |-> d]

----------------------------------------------------------------------------
(* Client.Do *)

ZeroRate == [Limit |-> 0, Remaining |-> 0, Reset |-> 0]

\* a *Response: the embedded http.Response's status, the page fields, Rate
MkResponse(isNil, status, p, rate) ==
    [isNil |-> isNil, StatusCode |-> status,
     NextPage |-> p.NextPage, PrevPage |-> p.PrevPage,
     FirstPage |-> p.FirstPage, LastPage |-> p.LastPage, Rate |-> rate]

NilResponse == MkResponse(TRUE, 0, ZeroPages, ZeroRate)

\* What c.client.Do(req) returned: sendErr # NilErr when the send failed;
\* otherwise a response with StatusCode, the Link header (as in variable
\* link), the rate-limit headers (present, and their values), Body, and
\* BodyErr when reading the body fails before any byte arrives.
MkHTTP(sendErr, status, l, rate, body, bodyErr) ==
    [sendErr |-> sendErr, StatusCode |-> status, Link |-> l, RateHdr |-> rate,
     Body |-> body, BodyErr |-> bodyErr]

NoRateHdr == [present |-> FALSE, Limit |-> 0, Remaining |-> 0, Reset |-> 0, RetryAfter |-> 0]
SomeRateHdr ==
    [present |-> TRUE, Limit |-> 100, Remaining |-> 7, Reset |-> 1700000000, RetryAfter |-> 30]

NoHTTP == MkHTTP(NilErr, 0, <<>>, NoRateHdr, "", FALSE)

\* what a call returns: (result, resp, err), or a panic that unwinds it
MkRet(result, resp, err, panicked) ==
    [result |-> result, resp |-> resp, err |-> err, panicked |-> panicked]

NoRet == MkRet(NoDest, NilResponse, NilErr, FALSE)

\* the send error reported as an API error
sendFailed_mut(sendErr) ==
    MkRet(NoDest, NilResponse, MkErr("*ErrorResponse", TRUE, 0, sendErr.id, "", "", <<>>, ""), FALSE)

\* `if err != nil { return nil, err }` after c.client.Do(req)
sendFailed(sendErr) == MkRet(NoDest, NilResponse, sendErr, FALSE)

\* pagination filled in only for a successful status
newResponse_mut(status, p) ==
    IF status >= 200 /\ status <= 299
    THEN MkResponse(FALSE, status, p, ZeroRate)
    ELSE MkResponse(FALSE, status, ZeroPages, ZeroRate)

\* response := &Response{Response: resp}; response.populatePageValues()
\* with p the fields populatePageValues computed; Rate is never assigned
newResponse(status, p) == MkResponse(FALSE, status, p, ZeroRate)

\* the body handling without the test for 204 No Content
readBody_mut204(t, d) ==
    LET val == jsonParse(t.Body)
        dec == decodeInto(val, d)
    IN IF d.kind = "nil"
       THEN [err |-> NilErr, v |-> d]
       ELSE IF d.kind = "writer"
       THEN IF t.BodyErr THEN [err |-> ForeignErr("copy", "read failed"), v |-> d]
            ELSE IF t.Body = "" THEN [err |-> NilErr, v |-> d]
            ELSE [err |-> NilErr, v |-> [d EXCEPT !.written = Append(@, t.Body)]]
       ELSE IF t.BodyErr THEN [err |-> ForeignErr("decode", "read failed"), v |-> d]
       ELSE IF val.t = "eof" THEN [err |-> NilErr, v |-> d]
       ELSE IF val.t = "invalid" THEN [err |-> ForeignErr("decode", "syntax"), v |-> d]
       ELSE [err |-> IF dec.failed THEN ForeignErr("decode", "type") ELSE NilErr,
             v |-> dec.v]

\* the body handling that reports the io.EOF of an empty body
readBody_mutEOF(t, d) ==
    LET val == jsonParse(t.Body)
        dec == decodeInto(val, d)
    IN IF d.kind = "nil" \/ t.StatusCode = StatusNoContent
       THEN [err |-> NilErr, v |-> d]
       ELSE IF d.kind = "writer"
       THEN IF t.BodyErr THEN [err |-> ForeignErr("copy", "read failed"), v |-> d]
            ELSE IF t.Body = "" THEN [err |-> NilErr, v |-> d]
            ELSE [err |-> NilErr, v |-> [d EXCEPT !.written = Append(@, t.Body)]]
       ELSE IF t.BodyErr THEN [err |-> ForeignErr("decode", "read failed"), v |-> d]
       ELSE IF val.t = "eof" THEN [err |-> ForeignErr("decode", "EOF"), v |-> d]
       ELSE IF val.t = "invalid" THEN [err |-> ForeignErr("decode", "syntax"), v |-> d]
       ELSE [err |-> IF dec.failed THEN ForeignErr("decode", "type") ELSE NilErr,
             v |-> dec.v]

\* the body handling that JSON-decodes before it looks for an io.Writer
readBody_mutWriter(t, d) ==
    LET val == jsonParse(t.Body)
        dec == decodeInto(val, d)
    IN IF d.kind = "nil" \/ t.StatusCode = StatusNoContent
       THEN [err |-> NilErr, v |-> d]
       ELSE IF t.BodyErr THEN [err |-> ForeignErr("decode", "read failed"), v |-> d]
       ELSE IF val.t = "eof" THEN [err |-> NilErr, v |-> d]
       ELSE IF val.t = "invalid" THEN [err |-> ForeignErr("decode", "syntax"), v |-> d]
       ELSE IF d.kind = "writer"
       THEN [err |-> NilErr, v |-> [d EXCEPT !.written = Append(@, t.Body)]]
       ELSE [err |-> IF dec.failed THEN ForeignErr("decode", "type") ELSE NilErr,
             v |-> dec.v]

\* the body handling of Do after CheckResponse returned nil: [err, v]
readBody(t, d) ==
    LET val == jsonParse(t.Body)
        dec == decodeInto(val, d)
    IN IF d.kind = "nil" \/ t.StatusCode = StatusNoContent
       THEN [err |-> NilErr, v |-> d]
       ELSE IF d.kind = "writer"
       THEN IF t.BodyErr THEN [err |-> ForeignErr("copy", "read failed"), v |-> d]
            ELSE IF t.Body = "" THEN [err |-> NilErr, v |-> d]
            ELSE [err |-> NilErr, v |-> [d EXCEPT !.written = Append(@, t.Body)]]
       ELSE IF t.BodyErr THEN [err |-> ForeignErr("decode", "read failed"), v |-> d]
       ELSE IF val.t = "eof" THEN [err |-> NilErr, v |-> d]     \* io.EOF ignored
       ELSE IF val.t = "invalid" THEN [err |-> ForeignErr("decode", "syntax"), v |-> d]
       ELSE [err |-> IF dec.failed THEN ForeignErr("decode", "type") ELSE NilErr,
             v |-> dec.v]

\* a Do that drops the envelope when the body cannot be read
Do_mut(t, d) ==
    LET p == populatePageValues(HeaderText(t.Link))
        response == newResponse(t.StatusCode, p)
        cerr == CheckResponse(t.StatusCode, t.Body, t.BodyErr)
        rb == readBody(t, d)
    IN IF t.sendErr # NilErr THEN [ret |-> sendFailed(t.sendErr), v |-> d]
       ELSE IF p.panicked THEN [ret |-> MkRet(NoDest, NilResponse, NilErr, TRUE), v |-> d]
       ELSE IF cerr # NilErr THEN [ret |-> MkRet(NoDest, response, cerr, FALSE), v |-> d]
       ELSE IF rb.err # NilErr THEN [ret |-> MkRet(NoDest, NilResponse, rb.err, FALSE), v |-> rb.v]
       ELSE [ret |-> MkRet(NoDest, response, rb.err, FALSE), v |-> rb.v]

\* a Do that reads the body into the destination before it looks at the
\* status
Do_mutReadFirst(t, d) ==
    LET p == populatePageValues(HeaderText(t.Link))
        response == newResponse(t.StatusCode, p)
        cerr == CheckResponse(t.StatusCode, t.Body, t.BodyErr)
        rb == readBody(t, d)
    IN IF t.sendErr # NilErr THEN [ret |-> sendFailed(t.sendErr), v |-> d]
       ELSE IF p.panicked THEN [ret |-> MkRet(NoDest, NilResponse, NilErr, TRUE), v |-> d]
       ELSE IF cerr # NilErr THEN [ret |-> MkRet(NoDest, response, cerr, FALSE), v |-> rb.v]
       ELSE [ret |-> MkRet(NoDest, response, rb.err, FALSE), v |-> rb.v]

\* Client.Do(req, v) when the transport returned t and v is d: the values
\* returned and the destination afterwards, [ret, v]
Do(t, d) ==
    LET p == populatePageValues(HeaderText(t.Link))
        response == newResponse(t.StatusCode, p)
        cerr == CheckResponse(t.StatusCode, t.Body, t.BodyErr)
        rb == readBody(t, d)
    IN IF t.sendErr # NilErr THEN [ret |-> sendFailed(t.sendErr), v |-> d]
       ELSE IF p.panicked THEN [ret |-> MkRet(NoDest, NilResponse, NilErr, TRUE), v |-> d]
       ELSE IF cerr # NilErr THEN [ret |-> MkRet(NoDest, response, cerr, FALSE), v |-> d]
       ELSE [ret |-> MkRet(NoDest, response, rb.err, FALSE), v |-> rb.v]

----------------------------------------------------------------------------
(* net/url: URL values, as far as NewClient and NewRequest depend on them *)

\* a *url.URL; Path is the path as written (its escaped form)
MkURL(scheme, opaque, host, path, rawQuery) ==
    [Scheme |-> scheme, Opaque |-> opaque, Host |-> host, Path |-> path,
     RawQuery |-> rawQuery]

NoURL == MkURL(<<>>, <<>>, <<>>, <<>>, <<>>)

\* the characters a host may hold unescaped
HostChars ==
    Letters \cup Digits \cup
    {"-", ".", "_", "~", "!", "$", "&", "'", "(", ")", "*", "+", ",", ";", "=",
     ":", "[", "]", "<", ">", "\""}

\* url.parseHost: every character allowed, and what follows the last ':'
\* is a (possibly empty) run of digits
validHost(host) ==
    LET colons == {i \in 1..Len(host) : host[i] = ":"}
        lastColon == CHOOSE i \in colons : \A j \in colons : j <= i
    IN /\ \A i \in 1..Len(host) : host[i] \in HostChars
       /\ colons # {} => \A i \in (lastColon + 1)..Len(host) : host[i] \in Digits

ParseFailed == [ok |-> FALSE, u |-> NoURL]

\* url.parse, the path: an invalid escape in it is an error
parsePath(scheme, host, path, rawQuery) ==
    IF BadEscape(path) THEN ParseFailed
    ELSE [ok |-> TRUE, u |-> MkURL(scheme, <<>>, host, path, rawQuery)]

\* url.parse, the authority ac = Cut(what follows "//", "/")
parseAuthority(scheme, ac, rawQuery) ==
    IF ~validHost(ac[1]) THEN ParseFailed
    ELSE parsePath(scheme, ac[1], IF ac[3] THEN <<"/">> \o ac[2] ELSE <<>>, rawQuery)

\* url.parse, what follows the scheme, cq = Cut(rest, "?")
parseHier(scheme, cq) ==
    LET rest == cq[1]
        rooted == Len(rest) >= 1 /\ rest[1] = "/"
        hasAuthority ==
            /\ Len(rest) >= 2 /\ rest[1] = "/" /\ rest[2] = "/"
            /\ (scheme # <<>> \/ ~(Len(rest) >= 3 /\ rest[3] = "/"))
    IN IF ~rooted /\ scheme # <<>>
       THEN [ok |-> TRUE, u |-> MkURL(scheme, rest, <<>>, <<>>, cq[2])]
       ELSE IF ~rooted /\ Contains(Cut(rest, "/")[1], ":") THEN ParseFailed
       ELSE IF hasAuthority
            THEN parseAuthority(scheme, Cut(SubSeq(rest, 3, Len(rest)), "/"), cq[2])
       ELSE parsePath(scheme, <<>>, rest, cq[2])

\* url.parse, after getScheme
parseScheme(sch) ==
    IF ~sch.ok THEN ParseFailed ELSE parseHier(sch.scheme, Cut(sch.rest, "?"))

\* url.Parse(rawURL) with all the parts of the URL: [ok, u]
parseURL(rawURL) ==
    IF \E i \in 1..Len(rawURL) : rawURL[i] \in ControlChars THEN ParseFailed
    ELSE parseScheme(getScheme(Cut(rawURL, "#")[1]))

\* (*URL).String()
URLString(u) ==
    LET scheme == IF u.Scheme # <<>> THEN u.Scheme \o <<":">> ELSE <<>>
        slashes == IF u.Host # <<>> \/ u.Path # <<>> THEN <<"/", "/">> ELSE <<>>
        authority == IF u.Scheme # <<>> \/ u.Host # <<>> THEN slashes \o u.Host ELSE <<>>
        sep == IF u.Path # <<>> /\ u.Path[1] # "/" /\ u.Host # <<>> THEN <<"/">> ELSE <<>>
        query == IF u.RawQuery # <<>> THEN <<"?">> \o u.RawQuery ELSE <<>>
    IN IF u.Opaque # <<>> THEN scheme \o u.Opaque \o query
       ELSE scheme \o authority \o sep \o u.Path \o query

\* the index of the last "/" of s, 0 without one
LastSlash(s) ==
    LET pos == {i \in 1..Len(s) : s[i] = "/"}
    IN IF pos = {} THEN 0 ELSE CHOOSE i \in pos : \A j \in pos : j <= i

\* url.resolvePath, the loop over the elements of the merged path
removeDotSegments(elems) ==
    LET \* dst after the leading '/', and the flag first
        RECURSIVE go(_, _, _)
        go(i, dst, first) ==
            IF i > Len(elems) THEN dst
            ELSE IF elems[i] = <<".">> THEN go(i + 1, dst, FALSE)
            ELSE IF elems[i] = <<".", ".">>
                 THEN IF LastSlash(dst) = 0 THEN go(i + 1, <<>>, TRUE)
                      ELSE go(i + 1, SubSeq(dst, 1, LastSlash(dst) - 1), first)
            ELSE go(i + 1, (IF first THEN dst ELSE dst \o <<"/">>) \o elems[i], FALSE)
        last == elems[Len(elems)]
    IN <<"/">> \o go(1, <<>>, TRUE)
          \o (IF last = <<".">> \/ last = <<".", ".">> THEN <<"/">> ELSE <<>>)

\* url.resolvePath, the result without a doubled leading '/'
singleSlash(r) == IF Len(r) > 1 /\ r[2] = "/" THEN Tail(r) ELSE r

\* url.resolvePath(base, ref): ref merged into base, dot segments removed
resolvePath(base, ref) ==
    LET full == IF ref = <<>> THEN base
                ELSE IF ref[1] # "/" THEN SubSeq(base, 1, LastSlash(base)) \o ref
                ELSE ref
    IN IF full = <<>> THEN <<>>
       ELSE singleSlash(removeDotSegments(Split(full, "/")))

\* u.ResolveReference(ref)
ResolveReference(u, ref) ==
    LET scheme == IF ref.Scheme = <<>> THEN u.Scheme ELSE ref.Scheme
    IN IF ref.Scheme # <<>> \/ ref.Host # <<>>
       THEN [ref EXCEPT !.Scheme = scheme, !.Path = resolvePath(ref.Path, <<>>)]
       ELSE IF ref.Opaque # <<>>
       THEN [ref EXCEPT !.Scheme = scheme, !.Host = <<>>, !.Path = <<>>]
       ELSE IF ref.Path = <<>> /\ u.Opaque # <<>>
       THEN [ref EXCEPT !.Scheme = scheme, !.Opaque = u.Opaque, !.Host = <<>>, !.Path = <<>>,
                        !.RawQuery = IF ref.RawQuery = <<>> THEN u.RawQuery ELSE ref.RawQuery]
       ELSE [ref EXCEPT !.Scheme = scheme, !.Host = u.Host,
                        !.Path = resolvePath(u.Path, ref.Path),
                        !.RawQuery = IF ref.Path = <<>> /\ ref.RawQuery = <<>>
                                     THEN u.RawQuery ELSE ref.RawQuery]

\* u.Parse(ref), from r = url.Parse(ref): [ok, u]
resolveParsed(u, r) ==
    IF r.ok THEN [ok |-> TRUE, u |-> ResolveReference(u, r.u)] ELSE ParseFailed

\* u.Parse(ref): [ok, u]
URLParseRef(u, ref) == resolveParsed(u, parseURL(ref))

----------------------------------------------------------------------------
(* Client, the options and NewClient *)

\* BaseURL = "https://api.sevalla.com/v2"
BaseURL == <<"h", "t", "t", "p", "s", ":", "/", "/", "a", "p", "i", ".", "s", "e", "v", "a", "l", "l", "a", ".", "c", "o", "m", "/", "v", "2">>

\* DefaultTimeout, in seconds
DefaultTimeout == 30

\* UserAgent = "sevalla-go/" + Version
UserAgent == "sevalla-go/0.1.0"

\* an *http.Client, told apart by id
DefaultHTTPClient == [id |-> "default", Timeout |-> DefaultTimeout]
CustomHTTPClient == [id |-> "custom", Timeout |-> 60]

\* the configuration fields of a Client
MkClient(httpClient, baseURL, apiKey, userAgent) ==
    [client |-> httpClient, baseURL |-> baseURL, apiKey |-> apiKey, userAgent |-> userAgent]

\* a ClientOption: the constructor that made it and its argument
Option(kind, key, url, ua, hc) ==
    [kind |-> kind, key |-> key, url |-> url, ua |-> ua, hc |-> hc]

OptAPIKey(key) == Option("WithAPIKey", key, <<>>, "", DefaultHTTPClient)
OptHTTPClient(hc) == Option("WithHTTPClient", "", <<>>, "", hc)
OptBaseURL(url) == Option("WithBaseURL", "", url, "", DefaultHTTPClient)
OptUserAgent(ua) == Option("WithUserAgent", "", <<>>, ua, DefaultHTTPClient)

\* the closure WithAPIKey(key) applied to c
WithAPIKey(c, key) == [c EXCEPT !.apiKey = key]

\* the closure WithHTTPClient(client) applied to c
WithHTTPClient(c, hc) == [c EXCEPT !.client = hc]

\* a WithBaseURL that stores the result of url.Parse whatever the error
WithBaseURL_mut(c, baseURL) == [c EXCEPT !.baseURL = parseURL(baseURL).u]

\* the closure WithBaseURL(baseURL) applied to c
WithBaseURL(c, baseURL) ==
    LET r == parseURL(baseURL)
    IN IF r.ok THEN [c EXCEPT !.baseURL = r.u] ELSE c

\* the closure WithUserAgent(ua) applied to c
WithUserAgent(c, ua) == [c EXCEPT !.userAgent = ua]

\* opt(c)
applyOption(c, o) ==
    IF o.kind = "WithAPIKey" THEN WithAPIKey(c, o.key)
    ELSE IF o.kind = "WithHTTPClient" THEN WithHTTPClient(c, o.hc)
    ELSE IF o.kind = "WithBaseURL" THEN WithBaseURL(c, o.url)
    ELSE WithUserAgent(c, o.ua)

\* the Client literal of NewClient, before the options
DefaultClient == MkClient(DefaultHTTPClient, parseURL(BaseURL).u, "", UserAgent)

\* a NewClient that runs the options from the last to the first
NewClient_mut(os) ==
    LET RECURSIVE go(_, _)
        go(i, c) == IF i < 1 THEN c ELSE go(i - 1, applyOption(c, os[i]))
    IN go(Len(os), DefaultClient)

\* NewClient(opts...): the configuration of the client it returns
NewClient(os) ==
    LET RECURSIVE go(_, _)
        go(i, c) == IF i > Len(os) THEN c ELSE go(i + 1, applyOption(c, os[i]))
    IN go(1, DefaultClient)

\* the Client NewClient returns is one object; a pointer to it is this
\* address, and any other address holds a copy of the Client literal
ClientAddr == "c"

ServiceNames == {"Applications", "Databases", "StaticSites", "Deployments", "Pipelines"}

\* no handles: the Client before NewClient ran
NoServices == [n \in ServiceNames |-> [client |-> "nil"]]

\* handles made from a copy of the Client
newServices_mut == [n \in ServiceNames |-> [client |-> "copy"]]

\* c.Applications = &ApplicationsService{client: c} and the four others:
\* every handle holds the pointer c itself
newServices == [n \in ServiceNames |-> [client |-> ClientAddr]]

----------------------------------------------------------------------------
(* Client.NewRequest and Client.NewRequestWithQuery *)

\* the body argument of NewRequest: kind "nil", "value" (a value whose JSON
\* encoding is json) or "unencodable" (a value json.Encoder rejects)
MkBody(kind, json) == [kind |-> kind, json |-> json]
NilBody == MkBody("nil", "")

\* the opts argument of NewRequestWithQuery: kind "nil" (no value), "nilptr"
\* (a nil *ListOptions), "ListOptions" (a pointer to the struct) or
\* "notstruct" (a value query.Values rejects); CompanyID is the field the
\* documentation gives the struct, which the struct of the code does not have
MkOpts(kind, page, perPage, sort, order, companyID) ==
    [kind |-> kind, Page |-> page, PerPage |-> perPage, Sort |-> sort,
     Order |-> order, CompanyID |-> companyID]
NilOpts == MkOpts("nil", 0, 0, <<>>, <<>>, <<>>)
NilPtrOpts == MkOpts("nilptr", 0, 0, <<>>, <<>>, <<>>)

\* a *http.Request and the error returned with it; Authorization is <<>>
\* when the header is absent, else the pieces of its value
MkRequest(err, method, u, contentType, authorization, userAgent, hasBody, body) ==
    [err |-> err, Method |-> method, URL |-> u, ContentType |-> contentType,
     Authorization |-> authorization, UserAgent |-> userAgent,
     HasBody |-> hasBody, Body |-> body]

NoRequest == MkRequest(NilErr, "", NoURL, "", <<>>, "", FALSE, "")

\* (nil, err)
FailedRequest(err) == MkRequest(err, "", NoURL, "", <<>>, "", FALSE, "")

\* the methods http.NewRequestWithContext accepts ("" stands for GET)
ValidMethods == {"", "GET", "POST", "PUT", "PATCH", "DELETE"}

\* an Authorization header set whatever the key
authorization_mut(apiKey) == <<"Bearer ", apiKey>>

\* `if c.apiKey != "" { req.Header.Set("Authorization", "Bearer "+c.apiKey) }`
authorization(apiKey) == IF apiKey # "" THEN <<"Bearer ", apiKey>> ELSE <<>>

\* `if body != nil { req.Header.Set("Content-Type", "application/json") }`
contentType(body) == IF body.kind # "nil" THEN "application/json" ELSE ""

\* the request http.NewRequestWithContext returns for the URL target, with
\* the Authorization and User-Agent headers both builders set
requestTo(c, method, target) ==
    IF method \notin ValidMethods THEN FailedRequest(ForeignErr("http", "invalid method"))
    ELSE IF ~target.ok THEN FailedRequest(ForeignErr("url", "parse"))
    ELSE MkRequest(NilErr, IF method = "" THEN "GET" ELSE method, target.u,
                   "", authorization(c.apiKey), c.userAgent, FALSE, "")

\* http.NewRequestWithContext(ctx, method, u.String(), ...): the URL is
\* written out and parsed again
httpNewRequest(c, method, u) == requestTo(c, method, parseURL(URLString(u)))

\* a Content-Type header set outside the test `body != nil`
withBody_mut(r, body) ==
    IF r.err # NilErr THEN r
    ELSE [r EXCEPT !.ContentType = "application/json", !.HasBody = body.kind # "nil",
                   !.Body = IF body.kind # "nil" THEN body.json \o "\n" ELSE ""]

\* NewRequest, the body and the Content-Type of the request r;
\* json.Encoder.Encode writes the encoding of body and a newline
withBody(r, body) ==
    IF r.err # NilErr \/ body.kind = "nil" THEN r
    ELSE [r EXCEPT !.ContentType = contentType(body), !.HasBody = TRUE,
                   !.Body = body.json \o "\n"]

\* NewRequest, once c.baseURL.Parse(urlStr) has returned u
newRequestAt(c, method, u, body) ==
    IF ~u.ok THEN FailedRequest(ForeignErr("url", "parse"))
    ELSE IF body.kind = "unencodable" THEN FailedRequest(ForeignErr("json", "unsupported type"))
    ELSE withBody(httpNewRequest(c, method, u.u), body)

\* Client.NewRequest(ctx, method, urlStr, body)
NewRequest(c, method, urlStr, body) ==
    newRequestAt(c, method, URLParseRef(c.baseURL, urlStr), body)

Key_page == <<"p", "a", "g", "e">>
Key_per_page == <<"p", "e", "r", "_", "p", "a", "g", "e">>
Key_sort == <<"s", "o", "r", "t">>
Key_order == <<"o", "r", "d", "e", "r">>
Key_company_id == <<"c", "o", "m", "p", "a", "n", "y", "_", "i", "d">>

DigitChar(n) ==
    CASE n = 0 -> "0" [] n = 1 -> "1" [] n = 2 -> "2" [] n = 3 -> "3"
      [] n = 4 -> "4" [] n = 5 -> "5" [] n = 6 -> "6" [] n = 7 -> "7"
      [] n = 8 -> "8" [] n = 9 -> "9"

\* strconv.Itoa(n)
Itoa(n) ==
    LET RECURSIVE digits(_)
        digits(k) == IF k < 10 THEN <<DigitChar(k)>>
                     ELSE Append(digits(k \div 10), DigitChar(k % 10))
    IN IF n < 0 THEN <<"-">> \o digits(0 - n) ELSE digits(n)

\* url.QueryEscape(s): unreserved characters stay, a space becomes '+',
\* the other characters used here become their %XX form
QueryEscape(s) ==
    LET esc(ch) ==
            IF ch \in Letters \cup Digits \cup {"-", "_", ".", "~"} THEN <<ch>>
            ELSE IF ch = " " THEN <<"+">>
            ELSE IF ch = "&" THEN <<"%", "2", "6">>
            ELSE IF ch = "=" THEN <<"%", "3", "D">>
            ELSE IF ch = "/" THEN <<"%", "2", "F">>
            ELSE <<"%", "3", "F">>     \* '?'
        RECURSIVE go(_)
        go(i) == IF i > Len(s) THEN <<>> ELSE esc(s[i]) \o go(i + 1)
    IN go(1)

\* query.Values(opts).Encode() for a ListOptions: the fields of the struct
\* (Page, PerPage, Sort, Order, each omitempty) as key=value, sorted by key
encodeListOptions(o) ==
    LET pair(k, val) == k \o <<"=">> \o val
        order == IF o.Order # <<>> THEN <<pair(Key_order, QueryEscape(o.Order))>> ELSE <<>>
        page == IF o.Page # 0 THEN <<pair(Key_page, Itoa(o.Page))>> ELSE <<>>
        perPage == IF o.PerPage # 0 THEN <<pair(Key_per_page, Itoa(o.PerPage))>> ELSE <<>>
        sort == IF o.Sort # <<>> THEN <<pair(Key_sort, QueryEscape(o.Sort))>> ELSE <<>>
    IN Join(order \o page \o perPage \o sort, <<"&">>)

\* NewRequestWithQuery, once c.baseURL.Parse(urlStr) has returned u
newRequestWithQueryAt(c, method, u, o) ==
    IF ~u.ok THEN FailedRequest(ForeignErr("url", "parse"))
    ELSE IF o.kind = "notstruct" THEN FailedRequest(ForeignErr("query", "expects struct input"))
    ELSE IF o.kind = "nil" THEN httpNewRequest(c, method, u.u)
    ELSE httpNewRequest(c, method,
            [u.u EXCEPT !.RawQuery = IF o.kind = "ListOptions"
                                     THEN encodeListOptions(o) ELSE <<>>])

\* Client.NewRequestWithQuery(ctx, method, urlStr, opts)
NewRequestWithQuery(c, method, urlStr, o) ==
    newRequestWithQueryAt(c, method, URLParseRef(c.baseURL, urlStr), o)

----------------------------------------------------------------------------
(* the resource methods *)

Str_applications == <<"a", "p", "p", "l", "i", "c", "a", "t", "i", "o", "n", "s">>

Id_42 == <<"4", "2">>
Id_badEscape == <<"%", "z">>
Ids == {Id_42, Id_badEscape}

\* identifiers holding characters that mean something in a URL
Id_slash == <<"a", "/", "b">>
Id_query == <<"a", "?", "b", "=", "c">>
Id_fragment == <<"a", "#", "b">>
Id_dots == <<".", ".">>
ReservedIds == {Id_slash, Id_query, Id_fragment, Id_dots}

\* a method that hands back what was decoded along with the error
methodReturn_mut(r, nilResult) ==
    IF r.ret.panicked THEN MkRet(nilResult, NilResponse, NilErr, TRUE)
    ELSE MkRet(r.v, r.ret.resp, r.ret.err, FALSE)

\* the tail shared by the methods that return a result: err != nil gives
\* (nil, resp, err), otherwise (the decoded value, resp, nil)
methodReturn(r, nilResult) ==
    IF r.ret.panicked THEN MkRet(nilResult, NilResponse, NilErr, TRUE)
    ELSE IF r.ret.err # NilErr THEN MkRet(nilResult, r.ret.resp, r.ret.err, FALSE)
    ELSE MkRet(r.v, r.ret.resp, NilErr, FALSE)

\* the request of ApplicationsService.Get(ctx, id)
GetRequest(c, id) == NewRequest(c, "GET", Str_applications \o <<"/">> \o id, NilBody)

\* ApplicationsService.Get(ctx, id), from the request rq it built
Get(rq, t) ==
    IF rq.err # NilErr THEN MkRet(NilApp, NilResponse, rq.err, FALSE)
       ELSE methodReturn(Do(t, NewApp), NilApp)

\* the request of ApplicationsService.List(ctx, opts)
ListRequest(c, o) == NewRequestWithQuery(c, "GET", Str_applications, o)

\* ApplicationsService.List(ctx, opts), from the request rq it built
List(rq, t) ==
    IF rq.err # NilErr THEN MkRet(NilApps, NilResponse, rq.err, FALSE)
       ELSE methodReturn(Do(t, NilApps), NilApps)

\* the request of ApplicationsService.Delete(ctx, id)
DeleteRequest(c, id) == NewRequest(c, "DELETE", Str_applications \o <<"/">> \o id, NilBody)

\* ApplicationsService.Delete(ctx, id), from the request rq it built:
\* (resp, err) of Do with no destination
Delete(rq, t) ==
    IF rq.err # NilErr THEN MkRet(NoDest, NilResponse, rq.err, FALSE)
       ELSE Do(t, NoDest).ret

----------------------------------------------------------------------------
(* inputs *)

StatusCodes ==
    {100, 199, 200, 201, 204, 299, 300, 400, 401, 403, 404, 409, 422, 429,
     499, 500, 599, 600}

\* Link headers of the responses given to Do: none, one entry, two entries,
\* a malformed entry before a good one, and the entry without '='
DoLinks == {<<>>, <<1>>, <<1, 4>>, <<6, 2>>, <<11>>}

SendErrors ==
    {ForeignErr("transport", "connection refused"),
     ForeignErr("transport", "context deadline exceeded")}

Responses ==
    {MkHTTP(NilErr, s, l, r, b, FALSE) :
        s \in StatusCodes, l \in DoLinks, r \in {NoRateHdr, SomeRateHdr}, b \in Bodies}
    \cup
    {MkHTTP(NilErr, s, l, NoRateHdr, "", TRUE) : s \in StatusCodes, l \in DoLinks}

Transports == Responses \cup {MkHTTP(e, 0, <<>>, NoRateHdr, "", FALSE) : e \in SendErrors}

\* all Link headers of at most MaxEntries entries
Headers == UNION {[1..n -> 1..NumEntries] : n \in 0..MaxEntries}

ADetail == [Field |-> "name", Code |-> "", Message |-> "required"]

\* error values handed to the predicates: ErrorResponses of every status
\* with and without Message, Code, RequestID and Errors, one built by hand
\* without a Response, and the errors of other types
ErrorPool ==
    {MkErr("*ErrorResponse", FALSE, s, m, c, r, e, "") :
        s \in StatusCodes, m \in {"", "boom"}, c \in {"", "E1"},
        r \in {"", "req-1"}, e \in {<<>>, <<ADetail>>}}
    \cup {MkErr("*ErrorResponse", TRUE, 0, "boom", "", "", <<>>, "")}
    \cup {MkRateLimitError(MkErr("*ErrorResponse", FALSE, s, "slow down", "", "", <<>>, ""), 60) : s \in StatusCodes}
    \cup {MkErr("*ValidationError", TRUE, 0, "required", "", "", <<>>, "")}
    \cup {ForeignErr("decode", "syntax"), NilErr}
    \cup SendErrors

\* base URLs given to WithBaseURL: two that parse (one whose path ends in
\* '/', one without a path) and two that do not
Url_example == <<"h", "t", "t", "p", "s", ":", "/", "/", "a", "p", "i", ".", "e", "x", "a", "m", "p", "l", "e", ".", "c", "o", "m", "/", "v", "2", "/">>
Url_custom == <<"h", "t", "t", "p", "s", ":", "/", "/", "c", "u", "s", "t", "o", "m", ".", "a", "p", "i", ".", "u", "r", "l">>
Url_noScheme == <<":", "b", "a", "d">>
Url_badEscape == <<"h", "t", "t", "p", ":", "/", "/", "h", "/", "%", "z", "z">>

OptionPool ==
    {OptAPIKey("k1"), OptAPIKey(""), OptHTTPClient(CustomHTTPClient),
     OptBaseURL(Url_example), OptBaseURL(Url_custom), OptBaseURL(Url_noScheme),
     OptBaseURL(Url_badEscape), OptUserAgent("my-app/1.0")}

\* all option sequences of at most MaxOpts options
OptionSeqs == UNION {[1..n -> OptionPool] : n \in 0..MaxOpts}

\* the clients that build requests
RequestClients ==
    {NewClient(<<>>),
     NewClient(<<OptAPIKey("k1")>>),
     NewClient(<<OptAPIKey("k1"), OptBaseURL(Url_example)>>),
     NewClient(<<OptBaseURL(Url_custom), OptUserAgent("my-app/1.0")>>)}

\* the urlStr arguments: relative paths, a rooted path, a path with a query,
\* a path climbing with "..", an absolute URL, the empty string and a
\* path with a malformed escape
Path_app42 == <<"a", "p", "p", "l", "i", "c", "a", "t", "i", "o", "n", "s", "/", "4", "2">>
Path_rootedApp42 == <<"/", "a", "p", "p", "l", "i", "c", "a", "t", "i", "o", "n", "s", "/", "4", "2">>
Path_logs == <<"a", "p", "p", "l", "i", "c", "a", "t", "i", "o", "n", "s", "/", "4", "2", "/", "l", "o", "g", "s", "?", "l", "i", "n", "e", "s", "=", "5">>
Path_up == <<".", ".", "/", "u", "p">>
Path_absolute == <<"h", "t", "t", "p", ":", "/", "/", "o", "t", "h", "e", "r", ".", "h", "o", "s", "t", "/", "x">>
Path_badEscape == <<"a", "p", "p", "l", "i", "c", "a", "t", "i", "o", "n", "s", "/", "%", "z">>

Paths ==
    {Str_applications, Path_app42, Path_rootedApp42, Path_logs, Path_up,
     Path_absolute, <<>>, Path_badEscape}

Methods == {"GET", "POST", "", "BAD METHOD"}

RequestBodies == {NilBody, MkBody("value", "{\"name\":\"a\"}"), MkBody("unencodable", "")}

Str_name == <<"n", "a", "m", "e">>
Str_a_b == <<"a", " ", "b">>
Str_asc == <<"a", "s", "c">>
Str_company == <<"c", "o", "m", "p", "a", "n", "y", "-", "1", "2", "3">>

ListOptionsPool ==
    {MkOpts("ListOptions", pg, pp, so, od, co) :
        pg \in {0, 2}, pp \in {0, 50}, so \in {<<>>, Str_name, Str_a_b},
        od \in {<<>>, Str_asc}, co \in {<<>>, Str_company}}

\* the options given to ApplicationsService.List: a nil pointer or a page
ListCallOptions == {NilPtrOpts, MkOpts("ListOptions", 2, 0, <<>>, <<>>, <<>>)}

QueryOptions ==
    ListOptionsPool \cup {NilOpts, NilPtrOpts, MkOpts("notstruct", 0, 0, <<>>, <<>>, <<>>)}

MkReqArg(method, urlStr, body, o) ==
    [method |-> method, urlStr |-> urlStr, body |-> body, opts |-> o]

NoReqArg == MkReqArg("", <<>>, NilBody, NilOpts)

\* no client constructed yet
NoClient == MkClient(DefaultHTTPClient, NoURL, "", "")

----------------------------------------------------------------------------
(* calls in progress on one Client *)

\* the goroutines that use the Client at the same time
Calls == {"a", "b"}

\* what a caller runs: a resource method of a service handle with its
\* argument, or Do itself with a request it built and a destination
MkOp(name, service, id, o, dest) ==
    [name |-> name, service |-> service, id |-> id, opts |-> o, dest |-> dest]

NoOp == MkOp("", "Applications", <<>>, NilOpts, NoDest)

\* the Client a handle's pointer leads to, when the Client's fields are c
deref(addr, c) == IF addr = ClientAddr THEN c ELSE DefaultClient

\* the request the operation builds on the Client c
opRequest(c, op) ==
    IF op.name = "Get" THEN GetRequest(c, op.id)
    ELSE IF op.name = "List" THEN ListRequest(c, op.opts)
    ELSE IF op.name = "Delete" THEN DeleteRequest(c, op.id)
    ELSE NewRequest(c, "GET", Path_logs, NilBody)

\* what the operation returns for its request rq and the transport's
\* answer t, and its destination afterwards: [ret, v]
opResult(op, rq, t) ==
    IF op.name = "Get" THEN [ret |-> Get(rq, t), v |-> op.dest]
    ELSE IF op.name = "List" THEN [ret |-> List(rq, t), v |-> op.dest]
    ELSE IF op.name = "Delete" THEN [ret |-> Delete(rq, t), v |-> op.dest]
    ELSE Do(t, op.dest)

\* a request bound to no caller's context
requestContext_mut(ctx) == "background"

\* http.NewRequestWithContext(ctx, ...): the request carries the context
\* the caller passed
requestContext(ctx) == ctx

\* the error of a send that ended because its context was done: net/http
\* wraps ctx.Err() in a *url.Error
ctxErr(state) ==
    ForeignErr("*url.Error",
               IF state = "canceled" THEN "context canceled"
               ELSE "context deadline exceeded")

\* errors.Is(err, target) for the sentinel errors of package context:
\* *url.Error unwraps to the error it carries
ErrorsIs(err, target) == err.type = "*url.Error" /\ err.id = target

\* a query written through a pointer that is c.baseURL itself
baseURLAfterBuild_mut(c, rq) ==
    IF rq.err = NilErr THEN [c.baseURL EXCEPT !.RawQuery = rq.URL.RawQuery]
    ELSE c.baseURL

\* c.baseURL after a request was built from it: NewRequest only reads it,
\* and the `u.RawQuery = v.Encode()` of NewRequestWithQuery writes to the
\* URL that c.baseURL.Parse allocated, never to c.baseURL
baseURLAfterBuild(c, rq) == c.baseURL

\* a Do that goes back to sending after a failure it could retry
doNext_mut(t, sends) ==
    IF sends < 2 /\ (t.sendErr # NilErr \/ t.StatusCode = StatusTooManyRequests
                        \/ t.StatusCode >= 500)
    THEN "built" ELSE "done"

\* where Do goes once the transport answered: it has no loop, every branch
\* after c.client.Do(req) ends in a return
doNext(t, sends) == "done"

\* a Do that closes the body at the end of the success path only
bodyAfterDo_mut(t) ==
    IF t.sendErr # NilErr THEN "none"
    ELSE IF CheckResponse(t.StatusCode, t.Body, t.BodyErr) # NilErr THEN "open"
    ELSE "closed"

\* the response body when Do returns: without a response there is none;
\* otherwise `defer resp.Body.Close()` ran, whichever return was taken
bodyAfterDo(t) == IF t.sendErr # NilErr THEN "none" ELSE "closed"

\* one call: pc is "idle", "built" (its request exists), "sending" (the
\* request is with the transport), "received" (the transport answered) or
\* "done" (it returned); ctx is the state of the caller's context, reqCtx
\* the context the request is bound to, sends the number of times the
\* request was handed to the transport, body the state of the response body
MkCall(p, op, ctx, reqCtx, rq, sends, t, body, r, d) ==
    [pc |-> p, op |-> op, ctx |-> ctx, reqCtx |-> reqCtx, req |-> rq,
     sends |-> sends, t |-> t, body |-> body, ret |-> r, v |-> d]

NoCall == MkCall("idle", NoOp, "live", "", NoRequest, 0, NoHTTP, "none", NoRet, NoDest)

NoCalls == [i \in Calls |-> NoCall]

\* the context of the call's request is done
ctxDone(call) == call.reqCtx = "ctx" /\ call.ctx # "live"

\* the operations the callers run: Get and Delete of an application, Get
\* with an id that does not parse, List without and with options, and Do
\* with an io.Writer as destination
CallOps ==
    {MkOp("Get", "Applications", Id_42, NilOpts, NoDest),
     MkOp("Get", "Applications", Id_badEscape, NilOpts, NoDest),
     MkOp("List", "Applications", <<>>, NilPtrOpts, NoDest),
     MkOp("List", "Applications", <<>>, MkOpts("ListOptions", 2, 0, <<>>, <<>>, <<>>), NoDest),
     MkOp("Delete", "Applications", Id_42, NilOpts, NoDest),
     MkOp("Do", "Applications", <<>>, NilOpts, OldWriter)}

\* the answers of the transport to the callers: success with one
\* application and with a list, a body that does not decode, a body that
\* cannot be read, 204, the statuses 404, 429 and 500, and a failed send
CallTransports ==
    {MkHTTP(NilErr, 200, <<1>>, SomeRateHdr, Body_app, FALSE),
     MkHTTP(NilErr, 200, <<>>, NoRateHdr, Body_appList, FALSE),
     MkHTTP(NilErr, 200, <<>>, NoRateHdr, Body_truncated, FALSE),
     MkHTTP(NilErr, 200, <<>>, NoRateHdr, "", TRUE),
     MkHTTP(NilErr, StatusNoContent, <<>>, NoRateHdr, "", FALSE),
     MkHTTP(NilErr, StatusNotFound, <<>>, NoRateHdr, Body_notFound, FALSE),
     MkHTTP(NilErr, StatusTooManyRequests, <<>>, SomeRateHdr, Body_full, FALSE),
     MkHTTP(NilErr, 500, <<1>>, NoRateHdr, Body_text, FALSE),
     MkHTTP(ForeignErr("transport", "connection refused"), 0, <<>>, NoRateHdr, "", FALSE)}

\* the options of the Client the callers share
CallOptions == {<<>>, <<OptAPIKey("k1"), OptBaseURL(Url_custom)>>}

----------------------------------------------------------------------------
(* the state machine *)

Idle ==
    /\ pc = "idle"
    /\ link = <<>>
    /\ pages = ZeroPages
    /\ errIn = NilErr
    /\ cls = NoClass
    /\ httpResp = NoHTTP
    /\ v0 = NoDest
    /\ v = NoDest
    /\ ret = NoRet
    /\ opts = <<>>
    /\ client = NewClient(<<>>)
    /\ reqArg = NoReqArg
    /\ req = NoRequest
    /\ errStr = NoErrStr
    /\ services = newServices
    /\ calls = NoCalls

Init == Idle

\* a caller runs c.Do(req, v) on a request that was built
DoCall ==
    /\ pc = "idle"
    /\ \E t \in Transports, d \in Dests :
        /\ httpResp' = t
        /\ v0' = d
        /\ v' = Do(t, d).v
        /\ ret' = Do(t, d).ret
    /\ pc' = "Do"
    /\ UNCHANGED <<link, pages, errIn, cls, opts, client, reqArg, req>>
    /\ UNCHANGED <<errStr, services, calls>>

\* a caller runs client.Applications.Get(ctx, id): the method builds its
\* request
GetCall ==
    /\ pc = "idle"
    /\ \E id \in Ids \cup ReservedIds :
        /\ reqArg' = MkReqArg("GET", Str_applications \o <<"/">> \o id, NilBody, NilOpts)
        /\ req' = GetRequest(client, id)
    /\ pc' = "GetDo"
    /\ UNCHANGED <<link, pages, errIn, cls, httpResp, v0, v, ret, opts, client>>
    /\ UNCHANGED <<errStr, services, calls>>

\* Get returns the error of a request that was not built, or hands the
\* request to Do and returns what Do gave it
GetDo ==
    /\ pc = "GetDo"
    /\ \E t \in (IF req.err # NilErr THEN {NoHTTP} ELSE Transports) :
        /\ httpResp' = t
        /\ ret' = Get(req, t)
    /\ pc' = "Get"
    /\ UNCHANGED <<link, pages, errIn, cls, v0, v, opts, client, reqArg, req>>
    /\ UNCHANGED <<errStr, services, calls>>

\* a caller runs client.Applications.List(ctx, opts)
ListCall ==
    /\ pc = "idle"
    /\ \E o \in ListCallOptions :
        /\ reqArg' = MkReqArg("GET", Str_applications, NilBody, o)
        /\ req' = ListRequest(client, o)
    /\ pc' = "ListDo"
    /\ UNCHANGED <<link, pages, errIn, cls, httpResp, v0, v, ret, opts, client>>
    /\ UNCHANGED <<errStr, services, calls>>

ListDo ==
    /\ pc = "ListDo"
    /\ \E t \in (IF req.err # NilErr THEN {NoHTTP} ELSE Transports) :
        /\ httpResp' = t
        /\ ret' = List(req, t)
    /\ pc' = "List"
    /\ UNCHANGED <<link, pages, errIn, cls, v0, v, opts, client, reqArg, req>>
    /\ UNCHANGED <<errStr, services, calls>>

\* a caller runs client.Applications.Delete(ctx, id)
DeleteCall ==
    /\ pc = "idle"
    /\ \E id \in Ids :
        /\ reqArg' = MkReqArg("DELETE", Str_applications \o <<"/">> \o id, NilBody, NilOpts)
        /\ req' = DeleteRequest(client, id)
    /\ pc' = "DeleteDo"
    /\ UNCHANGED <<link, pages, errIn, cls, httpResp, v0, v, ret, opts, client>>
    /\ UNCHANGED <<errStr, services, calls>>

DeleteDo ==
    /\ pc = "DeleteDo"
    /\ \E t \in (IF req.err # NilErr THEN {NoHTTP} ELSE Transports) :
        /\ httpResp' = t
        /\ ret' = Delete(req, t)
    /\ pc' = "Delete"
    /\ UNCHANGED <<link, pages, errIn, cls, v0, v, opts, client, reqArg, req>>
    /\ UNCHANGED <<errStr, services, calls>>

Next == DoCall \/ GetCall \/ GetDo \/ ListCall \/ ListDo \/ DeleteCall \/ DeleteDo

Spec == Init /\ [][Next]_vars

\* the nine predicates and Error applied to one error value
ClassifyCall ==
    /\ pc = "idle"
    /\ \E e \in ErrorPool :
        /\ errIn' = e
        /\ cls' = Classify(e)
        /\ errStr' = IF e = NilErr THEN NoErrStr ELSE Error(e)
    /\ pc' = "classify"
    /\ UNCHANGED <<link, pages, httpResp, v0, v, ret, opts, client, reqArg, req>>
    /\ UNCHANGED <<services, calls>>

NextErr == ClassifyCall

SpecErr == Init /\ [][NextErr]_vars

\* populatePageValues on a fresh Response whose Link header is link
InitLink ==
    /\ pc = "idle"
    /\ link \in Headers
    /\ pages = ZeroPages
    /\ errIn = NilErr
    /\ cls = NoClass
    /\ httpResp = NoHTTP
    /\ v0 = NoDest
    /\ v = NoDest
    /\ ret = NoRet
    /\ opts = <<>>
    /\ client = NewClient(<<>>)
    /\ reqArg = NoReqArg
    /\ req = NoRequest
    /\ errStr = NoErrStr
    /\ services = newServices
    /\ calls = NoCalls

PopulateCall ==
    /\ pc = "idle"
    /\ pages' = populatePageValues(HeaderText(link))
    /\ pc' = "populatePageValues"
    /\ UNCHANGED <<link, errIn, cls, httpResp, v0, v, ret, opts, client, reqArg, req>>
    /\ UNCHANGED <<errStr, services, calls>>

NextLink == PopulateCall

SpecLink == InitLink /\ [][NextLink]_vars

\* NewClient(opts...) on every option sequence
InitClient ==
    /\ pc = "start"
    /\ link = <<>>
    /\ pages = ZeroPages
    /\ errIn = NilErr
    /\ cls = NoClass
    /\ httpResp = NoHTTP
    /\ v0 = NoDest
    /\ v = NoDest
    /\ ret = NoRet
    /\ opts = <<>>
    /\ client = NoClient
    /\ reqArg = NoReqArg
    /\ req = NoRequest
    /\ errStr = NoErrStr
    /\ services = NoServices
    /\ calls = NoCalls

NewClientCall ==
    /\ pc = "start"
    /\ \E os \in OptionSeqs :
        /\ opts' = os
        /\ client' = NewClient(os)
        /\ services' = newServices
    /\ pc' = "NewClient"
    /\ UNCHANGED <<link, pages, errIn, cls, httpResp, v0, v, ret, reqArg, req>>
    /\ UNCHANGED <<errStr, calls>>

NextClient == NewClientCall

SpecClient == InitClient /\ [][NextClient]_vars

\* the request builders on a constructed client
InitReq ==
    /\ pc = "idle"
    /\ link = <<>>
    /\ pages = ZeroPages
    /\ errIn = NilErr
    /\ cls = NoClass
    /\ httpResp = NoHTTP
    /\ v0 = NoDest
    /\ v = NoDest
    /\ ret = NoRet
    /\ opts = <<>>
    /\ client \in RequestClients
    /\ reqArg = NoReqArg
    /\ req = NoRequest
    /\ errStr = NoErrStr
    /\ services = newServices
    /\ calls = NoCalls

\* a caller runs c.NewRequest(ctx, method, urlStr, body)
NewRequestCall ==
    /\ pc = "idle"
    /\ \E m \in Methods, u \in Paths, b \in RequestBodies :
        /\ reqArg' = MkReqArg(m, u, b, NilOpts)
        /\ req' = NewRequest(client, m, u, b)
    /\ pc' = "NewRequest"
    /\ UNCHANGED <<link, pages, errIn, cls, httpResp, v0, v, ret, opts, client>>
    /\ UNCHANGED <<errStr, services, calls>>

\* a caller runs c.NewRequestWithQuery(ctx, method, urlStr, opts)
NewRequestWithQueryCall ==
    /\ pc = "idle"
    /\ \E m \in Methods, u \in Paths, o \in QueryOptions :
        /\ reqArg' = MkReqArg(m, u, NilBody, o)
        /\ req' = NewRequestWithQuery(client, m, u, o)
    /\ pc' = "NewRequestWithQuery"
    /\ UNCHANGED <<link, pages, errIn, cls, httpResp, v0, v, ret, opts, client>>
    /\ UNCHANGED <<errStr, services, calls>>

NextReq == NewRequestCall \/ NewRequestWithQueryCall

SpecReq == InitReq /\ [][NextReq]_vars

\* two callers use one Client at the same time
InitCalls ==
    /\ pc = "idle"
    /\ link = <<>>
    /\ pages = ZeroPages
    /\ errIn = NilErr
    /\ cls = NoClass
    /\ httpResp = NoHTTP
    /\ v0 = NoDest
    /\ v = NoDest
    /\ ret = NoRet
    /\ opts \in CallOptions
    /\ client = NewClient(opts)
    /\ reqArg = NoReqArg
    /\ req = NoRequest
    /\ errStr = NoErrStr
    /\ services = newServices
    /\ calls = NoCalls

oldVars == <<pc, link, pages, errIn, cls, httpResp, v0, v, ret, opts, reqArg, req, errStr>>

\* the call has its request rq
Built(i, op, rq) ==
    /\ calls' = [calls EXCEPT ![i] =
                    [@ EXCEPT !.pc = "built", !.op = op, !.req = rq,
                              !.reqCtx = requestContext("ctx")]]
    /\ client' = [client EXCEPT !.baseURL = baseURLAfterBuild(client, rq)]

\* a caller starts an operation: the method builds its request through
\* the handle's pointer to the Client
BuildCall(i) ==
    /\ calls[i].pc = "idle"
    /\ \E op \in CallOps :
        Built(i, op, opRequest(deref(services[op.service].client, client), op))
    /\ UNCHANGED <<oldVars, services>>

\* Do hands the request to the transport: resp, err := c.client.Do(req)
SendCall(i) ==
    /\ calls[i].pc = "built"
    /\ calls[i].req.err = NilErr
    /\ calls' = [calls EXCEPT ![i] = [@ EXCEPT !.pc = "sending", !.sends = @ + 1]]
    /\ UNCHANGED <<oldVars, client, services>>

\* the caller cancels its context, or the context's deadline passes
CancelCtx(i) ==
    /\ calls[i].pc \in {"built", "sending"}
    /\ calls[i].ctx = "live"
    /\ \E c \in {"canceled", "deadline"} :
        calls' = [calls EXCEPT ![i] = [@ EXCEPT !.ctx = c]]
    /\ UNCHANGED <<oldVars, client, services>>

\* the transport answers the send: a response, whose body is open, or an
\* error
Respond(i) ==
    /\ calls[i].pc = "sending"
    /\ ~ctxDone(calls[i])
    /\ \E t \in CallTransports :
        calls' = [calls EXCEPT ![i] =
                    [@ EXCEPT !.pc = "received", !.t = t,
                              !.body = IF t.sendErr = NilErr THEN "open" ELSE "none"]]
    /\ UNCHANGED <<oldVars, client, services>>

\* the transport ends a send whose context is done with the context's error
Abort(i) ==
    /\ calls[i].pc = "sending"
    /\ ctxDone(calls[i])
    /\ calls' = [calls EXCEPT ![i] =
                    [@ EXCEPT !.pc = "received",
                              !.t = MkHTTP(ctxErr(calls[i].ctx), 0, <<>>, NoRateHdr, "", FALSE)]]
    /\ UNCHANGED <<oldVars, client, services>>

\* the call returns r
Returned(i, r) ==
    calls' = [calls EXCEPT ![i] =
                [@ EXCEPT !.pc = doNext(calls[i].t, calls[i].sends),
                          !.ret = r.ret, !.v = r.v,
                          !.body = IF calls[i].pc = "received"
                                   THEN bodyAfterDo(calls[i].t) ELSE @]]

\* the call is about to return
Returning(i) ==
    \/ calls[i].pc = "received"
    \/ calls[i].pc = "built" /\ calls[i].req.err # NilErr

\* the operation returns: at once when its request was not built, else
\* when Do has dealt with the transport's answer
ReturnCall(i) ==
    /\ Returning(i)
    /\ Returned(i, opResult(calls[i].op, calls[i].req, calls[i].t))
    /\ UNCHANGED <<oldVars, client, services>>

NextCalls ==
    \E i \in Calls :
        BuildCall(i) \/ SendCall(i) \/ CancelCtx(i) \/ Respond(i) \/ Abort(i) \/ ReturnCall(i)

SpecCalls == InitCalls /\ [][NextCalls]_vars

\* one caller alone on the Client
NextCall ==
    \/ BuildCall("a") \/ SendCall("a") \/ CancelCtx("a")
    \/ Respond("a") \/ Abort("a") \/ ReturnCall("a")

\* weak fairness of ReturnCall(i), written out: ReturnCall(i) is enabled
\* exactly when Returning(i) holds, and it always changes calls
FairReturn(i) == []<>(~Returning(i)) \/ []<><<ReturnCall(i)>>_vars

\* the transport watches the context of a request it holds, and a
\* goroutine that can return does; the transport itself may never answer
SpecCall == InitCalls /\ [][NextCall]_vars /\ WF_vars(Abort("a")) /\ FairReturn("a")

----------------------------------------------------------------------------
(* Properties *)

Success(status) == status >= 200 /\ status <= 299

\* a call of Do that received a response and returned
DoReturned == pc = "Do" /\ httpResp.sendErr = NilErr /\ ~ret.panicked

\* err is an *ErrorResponse carrying exactly this status
TypedError(err, status) ==
    /\ err.type = "*ErrorResponse"
    /\ ~err.Response.isNil
    /\ err.Response.StatusCode = status

\* C1 (as stated): for every status code c, Do returns a nil error when
\* 200 <= c <= 299 and otherwise an *ErrorResponse whose status is c
C1_Original ==
    DoReturned =>
        IF Success(httpResp.StatusCode) THEN ret.err = NilErr
        ELSE TypedError(ret.err, httpResp.StatusCode)

\* C1 (amended): CheckResponse returns nil exactly for 200..299; Do returns
\* a nil error for these codes unless reading the body into a non-nil
\* destination fails on a status other than 204, and for every other code
\* an *ErrorResponse whose status is that code, whatever the body is
C1_StatusDecidesError ==
    DoReturned =>
        /\ (CheckResponse(httpResp.StatusCode, httpResp.Body, httpResp.BodyErr) = NilErr)
              <=> Success(httpResp.StatusCode)
        /\ IF Success(httpResp.StatusCode)
           THEN \/ ret.err = NilErr
                \/ /\ ret.err.type \in {"decode", "copy"}
                   /\ v0.kind # "nil"
                   /\ httpResp.StatusCode # StatusNoContent
           ELSE TypedError(ret.err, httpResp.StatusCode)

C1_Witness ==
    /\ DoReturned
    /\ httpResp.StatusCode = 299
    /\ httpResp.Body = Body_app
    /\ v0 = OldApp
    /\ ret.err = NilErr
    /\ v.obj.ID = "a1"

\* the result of a Get or List call is non-nil
HasResult == ~ret.result.isNil

BuildFailed == ret.err.type = "url"

C3_TransportErrorUnchanged ==
    pc = "Do" /\ httpResp.sendErr # NilErr =>
        /\ ret.resp.isNil
        /\ ret.err = httpResp.sendErr
        /\ ret.err.type # "*ErrorResponse"
        /\ v = v0

C3_Witness ==
    /\ pc = "Do"
    /\ httpResp.sendErr = ForeignErr("transport", "connection refused")
    /\ ret.err = httpResp.sendErr
    /\ v0 = OldWriter

\* the member of a JSON object with key k, if it has one
HasMember(val, k) == \E i \in 1..Len(val.kv) : val.kv[i].k = k
MemberOf(val, k) == val.kv[CHOOSE i \in 1..Len(val.kv) : val.kv[i].k = k]
StringOrAbsent(val, k) == HasMember(val, k) => MemberOf(val, k).t = "str"
TextOf(val, k) == IF HasMember(val, k) THEN MemberOf(val, k).s ELSE ""

\* the documented error shape: an object with a string message and, when
\* present, string code and request_id
Conforming(body) ==
    LET val == jsonParse(body)
    IN /\ val.t = "obj"
       /\ HasMember(val, "message") /\ MemberOf(val, "message").t = "str"
       /\ StringOrAbsent(val, "code")
       /\ StringOrAbsent(val, "request_id")

\* C4 (as stated): for a non-2xx response whose body conforms to the error
\* shape, Message, Code and RequestID equal the body's members; for every
\* other body Message is the entire raw body text
C4_Original ==
    DoReturned /\ ~Success(httpResp.StatusCode) /\ ~httpResp.BodyErr =>
        IF Conforming(httpResp.Body)
        THEN /\ ret.err.Message = TextOf(jsonParse(httpResp.Body), "message")
             /\ ret.err.Code = TextOf(jsonParse(httpResp.Body), "code")
             /\ ret.err.RequestID = TextOf(jsonParse(httpResp.Body), "request_id")
        ELSE ret.err.Message = httpResp.Body

B(b) == IF b THEN "true" ELSE "false"

\* C5: for an *ErrorResponse with status s every predicate is decided by s
\* alone: 404, 400, 401, 403, 409, 422, 429, 400..499 and 500..599
C5_PredicatesByStatus ==
    pc = "classify" /\ errIn.type = "*ErrorResponse" /\ ~errIn.Response.isNil =>
        LET s == errIn.Response.StatusCode
        IN cls = [IsNotFound |-> B(s = 404),
                  IsBadRequest |-> B(s = 400),
                  IsUnauthorized |-> B(s = 401),
                  IsForbidden |-> B(s = 403),
                  IsConflict |-> B(s = 409),
                  IsUnprocessableEntity |-> B(s = 422),
                  IsRateLimited |-> B(s = 429),
                  IsServerError |-> B(s >= 500 /\ s <= 599),
                  IsClientError |-> B(s >= 400 /\ s <= 499)]

C5_Witness ==
    /\ pc = "classify"
    /\ errIn.type = "*ErrorResponse"
    /\ errIn.Response.StatusCode = 500
    /\ errIn.Message = "boom" /\ errIn.Code = "E1" /\ errIn.Errors # <<>>
    /\ cls.IsServerError = "true"
    /\ cls.IsClientError = "false"

\* C6: every predicate answers false for an error that is not an
\* *ErrorResponse: nil, a transport or decode error, a *ValidationError,
\* and a *RateLimitError even when it embeds an ErrorResponse of status 429
C6_FalseForOtherErrors ==
    pc = "classify" /\ errIn.type # "*ErrorResponse" =>
        \A p \in DOMAIN cls : cls[p] = "false"

C6_Witness ==
    /\ pc = "classify"
    /\ errIn.type = "*RateLimitError"
    /\ ~errIn.Response.isNil
    /\ errIn.Response.StatusCode = 429
    /\ cls.IsRateLimited = "false"
    /\ cls.IsClientError = "false"

\* the page of the last well-formed entry of l with this rel, 0 without one
PageOf(l, rel) ==
    LET is == {i \in 1..Len(l) : LinkEntries[l[i]].wf /\ LinkEntries[l[i]].rel = rel}
    IN IF is = {} THEN 0
       ELSE LinkEntries[l[CHOOSE i \in is : \A j \in is : j <= i]].page

\* the page fields the entries of l name
PagesOf(l) ==
    [NextPage |-> PageOf(l, "next"), PrevPage |-> PageOf(l, "prev"),
     FirstPage |-> PageOf(l, "first"), LastPage |-> PageOf(l, "last"),
     panicked |-> FALSE]

AllWellFormed(l) == \A i \in 1..Len(l) : LinkEntries[l[i]].wf

\* C7: for a Link header of well-formed entries populatePageValues sets
\* each page field to the page of the entry with that rel, leaves at 0 the
\* fields whose rel does not occur, and leaves all four at 0 without header
C7_WellFormedLink ==
    pc = "populatePageValues" /\ AllWellFormed(link) => pages = PagesOf(link)

C7_Witness ==
    /\ pc = "populatePageValues"
    /\ link = <<4, 1, 3>>
    /\ pages.LastPage = 10 /\ pages.NextPage = 2 /\ pages.FirstPage = 1
    /\ pages.PrevPage = 0

\* C8 (as stated): a malformed entry is skipped without a panic, and every
\* well-formed entry of the same header still sets its field
C8_Original ==
    pc = "populatePageValues" => pages = PagesOf(link)

\* the page fields of a *Response
PageFields(r) == <<r.NextPage, r.PrevPage, r.FirstPage, r.LastPage>>

\* C9: the envelope Do returns with a non-2xx *ErrorResponse carries the
\* pagination values it would carry for a 2xx response with the same headers
C9_PaginationOnError ==
    DoReturned /\ ~Success(httpResp.StatusCode) =>
        /\ ~ret.resp.isNil
        /\ PageFields(ret.resp) =
              PageFields(Do([httpResp EXCEPT !.StatusCode = 200], v0).ret.resp)
        /\ PageFields(ret.resp) = PageFields(PagesOf(httpResp.Link))

C9_Witness ==
    /\ DoReturned
    /\ httpResp.StatusCode = 429
    /\ httpResp.Link = <<1, 4>>
    /\ ret.err.type = "*ErrorResponse"
    /\ ret.resp.NextPage = 2
    /\ ret.resp.LastPage = 10

\* C10 (as stated): the envelope's Rate.Limit, Rate.Remaining and Rate.Reset
\* are those of the response's rate-limit headers when these are present,
\* on success and on error responses alike
C10_Original ==
    DoReturned /\ httpResp.RateHdr.present =>
        ret.resp.Rate = [Limit |-> httpResp.RateHdr.Limit,
                         Remaining |-> httpResp.RateHdr.Remaining,
                         Reset |-> httpResp.RateHdr.Reset]

\* a call of Do that received a 2xx response other than 204 and returned
DoBodyRead ==
    /\ DoReturned
    /\ Success(httpResp.StatusCode)
    /\ httpResp.StatusCode # StatusNoContent

\* C11: on status 204 with a non-nil destination Do returns the envelope
\* and a nil error, reads nothing, and leaves the destination as it was
C11_NoContentLeavesDestination ==
    DoReturned /\ httpResp.StatusCode = StatusNoContent /\ v0.kind # "nil" =>
        /\ ret.err = NilErr
        /\ ~ret.resp.isNil
        /\ ret.resp.StatusCode = StatusNoContent
        /\ v = v0

C11_Witness ==
    /\ DoReturned
    /\ httpResp.StatusCode = StatusNoContent
    /\ httpResp.Body = Body_app
    /\ v0 = OldApp
    /\ v = OldApp
    /\ ret.err = NilErr

\* the bodies that decode without error into a destination of this kind
Decodable(body, kind) ==
    \/ kind = "app" /\ body \in {Body_null, Body_app, Body_notFound, Body_full, Body_otherShape}
    \/ kind = "apps" /\ body \in {Body_null, Body_appList}

\* C12: on a 2xx status other than 204 with an empty body and a non-nil
\* destination Do returns a nil error and the destination keeps its value;
\* every other failure to decode the body is returned as an error
C12_EmptyBodyTolerated ==
    DoBodyRead /\ v0.kind # "nil" =>
        /\ (httpResp.Body = Body_empty /\ ~httpResp.BodyErr) => (ret.err = NilErr /\ v = v0)
        /\ (/\ v0.kind # "writer"
            /\ \/ httpResp.BodyErr
               \/ httpResp.Body # Body_empty /\ ~Decodable(httpResp.Body, v0.kind))
              => ret.err.type = "decode"

C12_Witness ==
    /\ DoBodyRead
    /\ httpResp.StatusCode = 200
    /\ httpResp.Body = Body_empty
    /\ ~httpResp.BodyErr
    /\ v0 = OldApp
    /\ v = OldApp
    /\ ret.err = NilErr

\* the destination a resource method hands to Do
DestOf(method) == IF method = "Get" THEN NewApp ELSE NilApps

\* C13: when a 2xx body fails to decode into the destination or to copy
\* into a writer, Do returns the envelope (status and page fields) with the
\* error, and Get and List return a nil result with that envelope and error
C13_EnvelopeOnDecodeFailure ==
    /\ DoReturned /\ Success(httpResp.StatusCode) /\ ret.err # NilErr =>
          /\ ~ret.resp.isNil
          /\ ret.resp.StatusCode = httpResp.StatusCode
          /\ PageFields(ret.resp) = PageFields(PagesOf(httpResp.Link))
    /\ (/\ pc \in {"Get", "List"}
        /\ ~ret.panicked
        /\ ~BuildFailed
        /\ httpResp.sendErr = NilErr
        /\ Success(httpResp.StatusCode)
        /\ ret.err # NilErr) =>
          /\ ~HasResult
          /\ ~ret.resp.isNil
          /\ ret.resp = Do(httpResp, DestOf(pc)).ret.resp
          /\ ret.err = Do(httpResp, DestOf(pc)).ret.err
          /\ ret.resp.StatusCode = httpResp.StatusCode

C13_Witness ==
    /\ pc = "List"
    /\ httpResp.StatusCode = 200
    /\ httpResp.Body = Body_truncated
    /\ httpResp.Link = <<1, 4>>
    /\ ret.err.type = "decode"
    /\ ret.resp.NextPage = 2
    /\ ~HasResult

\* C14: on a 2xx status other than 204 a body is copied to an io.Writer
\* destination as it is, JSON or not, and is JSON-decoded into any other
\* non-nil destination
C14_WriterGetsRawBody ==
    DoBodyRead /\ ~httpResp.BodyErr /\ httpResp.Body # Body_empty =>
        /\ v0.kind = "writer" =>
              /\ ret.err = NilErr
              /\ v.written = Append(v0.written, httpResp.Body)
        /\ (v0.kind = "app" /\ httpResp.Body = Body_app) =>
              /\ ret.err = NilErr
              /\ v.obj = [ID |-> "a1", Name |-> "web"]
        /\ (v0.kind = "apps" /\ httpResp.Body = Body_appList) =>
              /\ ret.err = NilErr
              /\ v.items = <<[ID |-> "a1", Name |-> "web"]>>
        /\ (v0.kind \in {"app", "apps"} /\ httpResp.Body = Body_text) =>
              ret.err.type = "decode"

C14_Witness ==
    /\ DoBodyRead
    /\ httpResp.Body = Body_text
    /\ v0 = OldWriter
    /\ v.written = <<"old", Body_text>>
    /\ ret.err = NilErr

\* NewClient has returned
ClientBuilt == pc = "NewClient"

\* the index of the last option of opts for which Sets holds, 0 without one
LastIndex(Sets) ==
    IF Sets = {} THEN 0 ELSE CHOOSE i \in Sets : \A j \in Sets : j <= i

OptionsOfKind(kind) == {i \in 1..Len(opts) : opts[i].kind = kind}

\* the WithBaseURL options whose argument parses as a URL
ParsingBaseURLs ==
    {i \in OptionsOfKind("WithBaseURL") : parseURL(opts[i].url).ok}

\* C15: NewClient starts from the defaults and applies the options in the
\* order given: each of apiKey, client, baseURL and userAgent ends with the
\* value of the last option that set it, or with its default (no key, an
\* HTTP client with DefaultTimeout, BaseURL, UserAgent) if none did, so no
\* option changes a field other than its own
C15_LastOptionWins ==
    ClientBuilt =>
        LET k == LastIndex(OptionsOfKind("WithAPIKey"))
            h == LastIndex(OptionsOfKind("WithHTTPClient"))
            b == LastIndex(ParsingBaseURLs)
            a == LastIndex(OptionsOfKind("WithUserAgent"))
        IN /\ client.apiKey = (IF k = 0 THEN "" ELSE opts[k].key)
           /\ client.client = (IF h = 0 THEN [id |-> "default", Timeout |-> DefaultTimeout]
                               ELSE opts[h].hc)
           /\ URLString(client.baseURL) = (IF b = 0 THEN BaseURL ELSE opts[b].url)
           /\ client.userAgent = (IF a = 0 THEN UserAgent ELSE opts[a].ua)

C15_Witness ==
    /\ ClientBuilt
    /\ Len(opts) = 3
    /\ opts[1] = OptBaseURL(Url_example)
    /\ opts[2] = OptAPIKey("k1")
    /\ opts[3] = OptBaseURL(Url_custom)
    /\ URLString(client.baseURL) = Url_custom
    /\ client.apiKey = "k1"
    /\ client.userAgent = UserAgent
    /\ client.client.Timeout = DefaultTimeout

\* the WithBaseURL options whose argument does not parse as a URL
FailingBaseURLs == OptionsOfKind("WithBaseURL") \ ParsingBaseURLs

\* opts without the options of FailingBaseURLs
OtherOptions ==
    LET keep == {i \in 1..Len(opts) : i \notin FailingBaseURLs}
        RECURSIVE pick(_)
        pick(i) == IF i > Len(opts) THEN <<>>
                   ELSE IF i \in keep THEN <<opts[i]>> \o pick(i + 1)
                   ELSE pick(i + 1)
    IN pick(1)

\* C16: a WithBaseURL whose argument does not parse as a URL leaves the base
\* URL at the value it had before the option ran (the default, or the one
\* an earlier WithBaseURL set) and changes nothing else, so NewClient
\* returns the client it returns without that option, with a base URL
C16_BadBaseURLIgnored ==
    ClientBuilt =>
        /\ client.baseURL # NoURL
        /\ client = NewClient(OtherOptions)
        /\ \A i \in FailingBaseURLs :
              (\A j \in (i + 1)..Len(opts) : opts[j].kind # "WithBaseURL") =>
                  LET before == {j \in ParsingBaseURLs : j < i}
                  IN URLString(client.baseURL) =
                        (IF before = {} THEN BaseURL ELSE opts[LastIndex(before)].url)

C16_Witness ==
    /\ ClientBuilt
    /\ Len(opts) = 3
    /\ opts[1] = OptBaseURL(Url_custom)
    /\ opts[2] = OptBaseURL(Url_badEscape)
    /\ opts[3] = OptBaseURL(Url_noScheme)
    /\ URLString(client.baseURL) = Url_custom

\* NewRequest or NewRequestWithQuery has returned
RequestBuilt == pc \in {"NewRequest", "NewRequestWithQuery"}

\* no request came back
NoRequestBuilt == req.URL = NoURL /\ req.Method = "" /\ ~req.HasBody

\* the reference P of the call, parsed on its own
RefOf(arg) == parseURL(arg.urlStr)

\* P is a path reference: no scheme, no host, a non-empty path
PathReference(p) == p.Scheme = <<>> /\ p.Opaque = <<>> /\ p.Host = <<>> /\ p.Path # <<>>

\* P's path has no "." or ".." segment
NoDotSegments(path) ==
    \A i \in 1..Len(Split(path, "/")) :
        Split(path, "/")[i] \notin {<<".">>, <<".", ".">>}

\* path p appended to the base path b
Appended(b, p) ==
    IF b = <<>> THEN <<"/">> \o p
    ELSE IF b[Len(b)] = "/" THEN b \o p
    ELSE b \o <<"/">> \o p

\* C17 as stated: for every base URL B and path P the request targets P
\* resolved against B, with B's scheme and host: a P beginning with "/"
\* replaces B's path, a relative P is appended to B's path; when the
\* resolution fails an error is returned and no request is built
C17_Original ==
    RequestBuilt /\ reqArg.method \in ValidMethods /\ reqArg.body.kind # "unencodable"
                 /\ reqArg.opts.kind # "notstruct" =>
        LET P == RefOf(reqArg)
        IN /\ ~P.ok => req.err # NilErr /\ NoRequestBuilt
           /\ P.ok /\ PathReference(P.u) =>
                /\ req.err = NilErr
                /\ req.URL.Scheme = client.baseURL.Scheme
                /\ req.URL.Host = client.baseURL.Host
                /\ P.u.Path[1] = "/" /\ NoDotSegments(P.u.Path) => req.URL.Path = P.u.Path
                /\ P.u.Path[1] # "/" /\ NoDotSegments(P.u.Path) =>
                      req.URL.Path = Appended(client.baseURL.Path, P.u.Path)

\* C18: every request built by NewRequest or NewRequestWithQuery carries
\* "Authorization: Bearer <key>" with the client's key when the key is not
\* empty and no Authorization header when it is, and always a User-Agent
\* header equal to the client's user agent
C18_BearerAndUserAgent ==
    RequestBuilt /\ req.err = NilErr =>
        /\ client.apiKey # "" => req.Authorization = <<"Bearer ", client.apiKey>>
        /\ client.apiKey = "" => req.Authorization = <<>>
        /\ req.UserAgent = client.userAgent

C18_Witness ==
    /\ pc = "NewRequestWithQuery"
    /\ client.apiKey = "k1"
    /\ reqArg.opts.kind = "ListOptions"
    /\ req.err = NilErr
    /\ req.Authorization = <<"Bearer ", "k1">>
    /\ req.UserAgent = UserAgent

\* C19: NewRequest sets "Content-Type: application/json" and attaches the
\* JSON encoding of the body exactly when the body argument is not nil;
\* NewRequestWithQuery attaches no body and sets no Content-Type, whatever
\* its options
C19_ContentTypeIffBody ==
    RequestBuilt /\ req.err = NilErr =>
        /\ pc = "NewRequest" /\ reqArg.body.kind # "nil" =>
              /\ req.ContentType = "application/json"
              /\ req.HasBody
              /\ req.Body = reqArg.body.json \o "\n"
        /\ pc = "NewRequest" /\ reqArg.body.kind = "nil" =>
              /\ req.ContentType = ""
              /\ ~req.HasBody
        /\ pc = "NewRequestWithQuery" =>
              /\ req.ContentType = ""
              /\ ~req.HasBody

C19_Witness ==
    /\ pc = "NewRequest"
    /\ reqArg.method = "POST"
    /\ reqArg.body.kind = "value"
    /\ req.err = NilErr
    /\ req.ContentType = "application/json"
    /\ req.HasBody
    /\ req.Body = "{\"name\":\"a\"}\n"

\* the keys of the query parameters of q
QueryKeys(q) ==
    IF q = <<>> THEN {}
    ELSE {Cut(Split(q, "&")[i], "=")[1] : i \in 1..Len(Split(q, "&"))}

\* parameter key is in q exactly when present holds, and then with value val
ParamIff(q, key, present, val) ==
    /\ key \in QueryKeys(q) <=> present
    /\ present => QueryGet(q, key) = val

\* C20 as stated: NewRequestWithQuery encodes a ListOptions with omit-empty
\* semantics: each of page, per_page, sort, order and company_id is in the
\* query exactly when its field is not zero or empty, with the field's
\* value; with nil options or all fields zero the URL has no query
C20_Original ==
    pc = "NewRequestWithQuery" /\ req.err = NilErr /\ ~Contains(reqArg.urlStr, "?") =>
        LET q == req.URL.RawQuery
            o == reqArg.opts
        IN /\ o.kind = "ListOptions" =>
                /\ ParamIff(q, Key_page, o.Page # 0, Itoa(o.Page))
                /\ ParamIff(q, Key_per_page, o.PerPage # 0, Itoa(o.PerPage))
                /\ ParamIff(q, Key_sort, o.Sort # <<>>, o.Sort)
                /\ ParamIff(q, Key_order, o.Order # <<>>, o.Order)
                /\ ParamIff(q, Key_company_id, o.CompanyID # <<>>, o.CompanyID)
           /\ o.kind \in {"nil", "nilptr"} => q = <<>>
           /\ (o.kind = "ListOptions" /\ o.Page = 0 /\ o.PerPage = 0 /\ o.Sort = <<>>
                 /\ o.Order = <<>> /\ o.CompanyID = <<>>) => q = <<>>

\* the call i has returned
Done(i) == calls[i].pc = "done"

\* the answer t holds a body that the operation op reads and cannot take in:
\* a decode failure of Get or List, a copy failure of Do into a writer
ReadFails(op, t) ==
    /\ t.sendErr = NilErr /\ Success(t.StatusCode) /\ t.StatusCode # StatusNoContent
    /\ \/ op.name \in {"Get", "List"} /\ (t.BodyErr \/ jsonParse(t.Body).t = "invalid")
       \/ op.name = "Do" /\ t.BodyErr

\* C21: each call hands its request to the transport exactly once (never,
\* when the request was not built): after a transport failure, a non-2xx
\* status or a decode failure the request is not sent again, and the
\* failure is what the caller gets
C21_SentOnce ==
    \A i \in Calls :
        /\ calls[i].sends <= 1
        /\ calls[i].pc \in {"sending", "received"} => calls[i].sends = 1
        /\ Done(i) =>
            LET c == calls[i]
            IN /\ c.sends = (IF c.req.err = NilErr THEN 1 ELSE 0)
               /\ c.req.err # NilErr => c.ret.err = c.req.err
               /\ c.req.err = NilErr /\ c.t.sendErr # NilErr => c.ret.err = c.t.sendErr
               /\ c.req.err = NilErr /\ c.t.sendErr = NilErr /\ ~Success(c.t.StatusCode) =>
                      TypedError(c.ret.err, c.t.StatusCode)
               /\ c.req.err = NilErr /\ ReadFails(c.op, c.t) =>
                      c.ret.err.type \in {"decode", "copy"}

C21_Witness ==
    \E i \in Calls :
        /\ Done(i)
        /\ calls[i].op.name = "Get"
        /\ calls[i].t.StatusCode = 500
        /\ calls[i].sends = 1
        /\ IsServerError(calls[i].ret.err) = "true"

\* C22: when Do returns after the transport delivered a response, the
\* response body is closed, whichever way Do returns (2xx, 204, non-2xx,
\* decode failure, copy failure); it is open until then, and there is no
\* body when no response was delivered
C22_BodyClosed ==
    \A i \in Calls :
        /\ Done(i) /\ calls[i].sends = 1 /\ calls[i].t.sendErr = NilErr =>
              calls[i].body = "closed"
        /\ calls[i].pc = "received" /\ calls[i].t.sendErr = NilErr =>
              calls[i].body = "open"
        /\ calls[i].sends = 0 \/ calls[i].t.sendErr # NilErr => calls[i].body = "none"

C22_Witness ==
    \E i \in Calls :
        /\ Done(i)
        /\ calls[i].op.name = "Do"
        /\ calls[i].t.BodyErr
        /\ calls[i].ret.err.type = "copy"
        /\ calls[i].body = "closed"

\* C23: with one Client shared by concurrent calls, no call writes the
\* Client's fields or its service handles, and under every interleaving
\* the request, the result, the envelope and the error of a call are those
\* the same operation gives alone on the Client as NewClient returned it,
\* for the call's own arguments and the answer to its own request
C23_CallsIndependent ==
    /\ client = NewClient(opts)
    /\ services = newServices
    /\ \A i \in Calls :
        /\ calls[i].pc # "idle" =>
              calls[i].req = opRequest(NewClient(opts), calls[i].op)
        /\ Done(i) =>
              [ret |-> calls[i].ret, v |-> calls[i].v] =
                  opResult(calls[i].op, opRequest(NewClient(opts), calls[i].op), calls[i].t)

C23_Witness ==
    /\ Done("a") /\ Done("b")
    /\ calls["a"].op.name = "List" /\ calls["a"].req.URL.RawQuery # <<>>
    /\ calls["a"].ret.err = NilErr
    /\ calls["b"].op.name = "Get" /\ calls["b"].req.URL.RawQuery = <<>>
    /\ IsNotFound(calls["b"].ret.err) = "true"
    /\ client.baseURL.RawQuery = <<>>

\* the error package context gives for the state of a context that is done
Cause(ctx) == IF ctx = "canceled" THEN "context canceled" ELSE "context deadline exceeded"

\* C24: every request is bound to its caller's context, and a send in
\* flight whose context is cancelled or past its deadline leads to the
\* call returning an error that matches context.Canceled or
\* context.DeadlineExceeded and is neither an *ErrorResponse nor another
\* transport failure
C24_CancelAborts ==
    /\ [](calls["a"].pc # "idle" => calls["a"].reqCtx = "ctx")
    /\ (calls["a"].pc = "sending" /\ calls["a"].ctx # "live")
          ~> (/\ Done("a")
              /\ ErrorsIs(calls["a"].ret.err, Cause(calls["a"].ctx))
              /\ calls["a"].ret.err.type # "*ErrorResponse"
              /\ calls["a"].ret.resp.isNil)

C24_Witness ==
    /\ Done("a")
    /\ calls["a"].ctx = "deadline"
    /\ calls["a"].sends = 1
    /\ ErrorsIs(calls["a"].ret.err, "context deadline exceeded")
    /\ IsErrorResponse(calls["a"].ret.err) = FALSE

\* a call of Do or of a resource method that received a response and
\* returned
Answered ==
    /\ pc \in {"Do", "Get", "List", "Delete"}
    /\ req.err = NilErr
    /\ httpResp.sendErr = NilErr
    /\ ~ret.panicked

\* C25: the pipeline never returns a *RateLimitError: for every non-2xx
\* response, status 429 with a Retry-After header included, the error is a
\* plain *ErrorResponse with no retry-after value, the one CheckResponse
\* gives, and IsRateLimited is true for the one of status 429
C25_NoRateLimitError ==
    /\ ret.err.type # "*RateLimitError"
    /\ Answered /\ ~Success(httpResp.StatusCode) =>
          /\ TypedError(ret.err, httpResp.StatusCode)
          /\ ret.err.RetryAfter = 0
          /\ IsRateLimited(ret.err) =
                (IF httpResp.StatusCode = StatusTooManyRequests THEN "true" ELSE "false")

C25_Witness ==
    /\ pc = "Do"
    /\ httpResp.StatusCode = StatusTooManyRequests
    /\ httpResp.RateHdr.RetryAfter = 30
    /\ ret.err.type = "*ErrorResponse"
    /\ ret.err.RetryAfter = 0
    /\ IsRateLimited(ret.err) = "true"

\* the path segments of a request URL
Segments(u) == Split(u.Path, "/")

\* the identifier of the call that built the request
IdOf(arg) == SubSeq(arg.urlStr, Len(Str_applications) + 2, Len(arg.urlStr))

\* C26 as stated: a resource method embeds the identifier path-escaped as
\* one segment: for every identifier the request is built, has the verb of
\* the method, no query, and the path of the endpoint with one segment for
\* the identifier, which holds the whole identifier (escaping never
\* shortens it)
C26_Original ==
    pc \in {"GetDo", "Get"} =>
        LET plain == GetRequest(client, Id_42).URL
        IN /\ req.err = NilErr
           /\ Len(Segments(req.URL)[Len(Segments(req.URL))]) >= Len(IdOf(reqArg))
           /\ req.Method = "GET"
           /\ req.URL.RawQuery = <<>>
           /\ Len(Segments(req.URL)) = Len(Segments(plain))
           /\ SubSeq(Segments(req.URL), 1, Len(Segments(plain)) - 1)
                 = SubSeq(Segments(plain), 1, Len(Segments(plain)) - 1)

\* the request of call i was built from the configuration of the Client c
BuiltFrom(i, c) ==
    /\ calls[i].req.UserAgent = c.userAgent
    /\ calls[i].req.Authorization = authorization(c.apiKey)
    /\ calls[i].req.URL.Host = c.baseURL.Host

\* C27: after NewClient no call changes the Client's baseURL, apiKey,
\* userAgent or HTTP client or rebinds a service handle, and every handle
\* points to the Client NewClient returned: requests built through a
\* handle carry that Client's configuration
C27_ClientFrozen ==
    /\ [](\A n \in ServiceNames : services[n].client = ClientAddr)
    /\ [](\A i \in Calls :
            calls[i].pc # "idle" /\ calls[i].req.err = NilErr => BuiltFrom(i, NewClient(opts)))
    /\ [][client' = client /\ services' = services]_vars

C27_Witness ==
    /\ opts # <<>>
    /\ Done("a") /\ Done("b")
    /\ calls["a"].op.name = "List" /\ calls["a"].op.opts.kind = "ListOptions"
    /\ calls["b"].op.name = "Delete"
    /\ calls["b"].req.Authorization = <<"Bearer ", "k1">>
    /\ services["Applications"].client = ClientAddr
    /\ client = NewClient(opts)

\* C28 as stated: on a client built without WithBaseURL the request of
\* Applications.List is for https://api.sevalla.com/v2/applications and
\* that of Applications.Get(id) for
\* https://api.sevalla.com/v2/applications/<id>
C28_Original ==
    /\ pc \in {"GetDo", "Get", "ListDo", "List", "DeleteDo", "Delete"}
    /\ opts = <<>>
    /\ reqArg.urlStr \in {Str_applications, Str_applications \o <<"/">> \o Id_42}
    => /\ req.err = NilErr
       /\ URLString([req.URL EXCEPT !.RawQuery = <<>>]) = BaseURL \o <<"/">> \o reqArg.urlStr

\* C29 as stated: the predicates and Error return a value for every error
\* value, an *ErrorResponse without a Response included; none panics
C29_Original ==
    pc = "classify" =>
        /\ ~errStr.panicked
        /\ \A p \in DOMAIN cls : cls[p] # "panic"

\* C30: for a response whose status is not 2xx Do leaves the destination,
\* a decode target or an io.Writer, as it was; the body goes into the
\* *ErrorResponse only (a body that is not JSON becomes its Message), and
\* Get and List return a nil result
C30_ErrorLeavesDestination ==
    /\ DoReturned /\ ~Success(httpResp.StatusCode) =>
          /\ v = v0
          /\ TypedError(ret.err, httpResp.StatusCode)
          /\ httpResp.Body = Body_text => ret.err.Message = Body_text
    /\ Answered /\ pc \in {"Get", "List"} /\ ~Success(httpResp.StatusCode) =>
          /\ ~HasResult
          /\ TypedError(ret.err, httpResp.StatusCode)

C30_Witness ==
    /\ pc = "Do"
    /\ httpResp.StatusCode = StatusNotFound
    /\ httpResp.Body = Body_app
    /\ v0 = OldApp
    /\ v = OldApp
    /\ ret.err.Message = ""

====
